---------------------------- MODULE Spec2Model ----------------------------
(***************************************************************************)
(* ShadowCrawler: the video indexer (VideoIndexer), its lane-based crawl   *)
(* and the catalog store (VideoStore, a SQLite table `videos`).            *)
(*                                                                         *)
(* File and directory names are sequences of one-character strings, a      *)
(* path is a sequence of names, join(dir, name) is Append(dir, name).      *)
(* The store is the sequence of rows of the table in rowid order.          *)
(***************************************************************************)
EXTENDS Integers, Sequences, FiniteSets, TLC

(***************************************************************************)
(* Bounds of the model.                                                    *)
(***************************************************************************)
MaxSubdirs == 2      \* subdirectories of the crawled root
MaxLanes   == 2      \* largest lane count (maxConcurrent) tried
MaxPasses  == 2      \* crawls run one after another
MaxItems   == 5      \* items handed to createThreadGroups on its own
MaxThreads == 3      \* thread counts handed to createThreadGroups on its own
MaxOps     == 3      \* store operations issued by the store's clients
MaxRows    == 3      \* records in a store that is queried
MaxPage    == 4      \* largest page number asked for
MaxPageSize == 2     \* largest page size asked for
MaxClock   == 25     \* the latest hour the clock reaches
MaxRun     == 100    \* most files in a row in one directory
MaxRegistrations == 2 \* registrations per callback field
MaxEmits   == 3      \* events emitted per callback field
MaxOverlap == 2      \* analysis passes in one behaviour
MaxCallers == 3      \* callers of VideoStore.initialize at one time
MaxCalls   == 5      \* calls of VideoStore.initialize in one behaviour
MaxUpserts == 1      \* records written while one read is under way

(***************************************************************************)
(* Names used by the bounded file systems.                                 *)
(***************************************************************************)
NameA == <<"a", ".", "m", "p", "4">>
NameB == <<"b", ".", "M", "K", "V">>
NameN == <<"n", ".", "a", "v", "i">>
NameT == <<"t", ".", "t", "x", "t">>
NameX == <<"x">>

DirName(i) == <<"d", ToString(i)>>

RootPath == << <<"R">> >>

(***************************************************************************)
(* Sequence helpers.                                                       *)
(***************************************************************************)
Last(s) == s[Len(s)]

Front(s) == SubSeq(s, 1, Len(s) - 1)

Range(s) == { s[i] : i \in 1..Len(s) }

RECURSIVE SumSeq(_)
SumSeq(s) == IF s = <<>> THEN 0 ELSE Head(s) + SumSeq(Tail(s))

(***************************************************************************)
(* @tauri-apps/api/path: join, dirname, basename, extname.                 *)
(***************************************************************************)
join(directoryPath, name) == Append(directoryPath, name)

dirname(fullPath) == Front(fullPath)

basename(path) == Last(path)

\* position of the last "." of a name, 0 when there is none
LastDot(name) ==
    LET dots == { i \in 1..Len(name) : name[i] = "." }
    IN  IF dots = {} THEN 0 ELSE CHOOSE i \in dots : \A j \in dots : j <= i

\* the extension without its dot; empty when the name has none (a leading
\* dot starts a hidden file, not an extension)
extname(name) ==
    IF LastDot(name) <= 1 THEN <<>>
    ELSE SubSeq(name, LastDot(name) + 1, Len(name))

UpperToLower ==
    [c \in {"A", "B", "C", "D", "E", "F", "G", "H", "I", "J", "K", "L", "M",
            "N", "O", "P", "Q", "R", "S", "T", "U", "V", "W", "X", "Y", "Z"} |->
        CASE c = "A" -> "a" [] c = "B" -> "b" [] c = "C" -> "c" [] c = "D" -> "d"
          [] c = "E" -> "e" [] c = "F" -> "f" [] c = "G" -> "g" [] c = "H" -> "h"
          [] c = "I" -> "i" [] c = "J" -> "j" [] c = "K" -> "k" [] c = "L" -> "l"
          [] c = "M" -> "m" [] c = "N" -> "n" [] c = "O" -> "o" [] c = "P" -> "p"
          [] c = "Q" -> "q" [] c = "R" -> "r" [] c = "S" -> "s" [] c = "T" -> "t"
          [] c = "U" -> "u" [] c = "V" -> "v" [] c = "W" -> "w" [] c = "X" -> "x"
          [] c = "Y" -> "y" [] c = "Z" -> "z"]

toLowerCase(s) ==
    [i \in 1..Len(s) |-> IF s[i] \in DOMAIN UpperToLower THEN UpperToLower[s[i]] ELSE s[i]]

(***************************************************************************)
(* VideoIndexer: the classifier.                                           *)
(***************************************************************************)
videoExtensions ==
    { <<".", "m", "p", "4">>,
      <<".", "a", "v", "i">>,
      <<".", "m", "o", "v">>,
      <<".", "m", "k", "v">>,
      <<".", "w", "e", "b", "m">>,
      <<".", "f", "l", "v">>,
      <<".", "w", "m", "v">>,
      <<".", "m", "4", "v">>,
      <<".", "m", "p", "g">>,
      <<".", "m", "p", "e", "g">>,
      <<".", "3", "g", "p">>,
      <<".", "o", "g", "v">> }

filesToSkip ==
    { <<".", "D", "S", "_", "S", "t", "o", "r", "e">>,
      <<"T", "h", "u", "m", "b", "s", ".", "d", "b">>,
      <<"d", "e", "s", "k", "t", "o", "p", ".", "i", "n", "i">>,
      <<".", "S", "p", "o", "t", "l", "i", "g", "h", "t", "-", "V", "1", "0", "0">>,
      <<".", "T", "r", "a", "s", "h", "e", "s">>,
      <<".", "f", "s", "e", "v", "e", "n", "t", "s", "d">>,
      <<".", "T", "e", "m", "p", "o", "r", "a", "r", "y", "I", "t", "e", "m", "s">>,
      <<".", "V", "o", "l", "u", "m", "e", "I", "c", "o", "n", ".", "i", "c", "n", "s">>,
      <<".", "a", "p", "d", "i", "s", "k">>,
      <<".", "l", "o", "c", "a", "l", "i", "z", "e", "d">>,
      <<".", "m", "e", "t", "a", "d", "a", "t", "a", "_", "n", "e", "v", "e", "r", "_", "i", "n", "d", "e", "x">>,
      <<".", "p", "a", "r", "e", "n", "t", "l", "o", "c", "k">>,
      <<".", "s", "y", "m", "l", "i", "n", "k", "s">>,
      <<".", "V", "o", "l", "u", "m", "e", "I", "c", "o", "n", ".", "i", "c", "o">>,
      <<"e", "h", "t", "h", "u", "m", "b", "s", ".", "d", "b">>,
      <<"e", "h", "t", "h", "u", "m", "b", "s", "_", "v", "i", "s", "t", "a", ".", "d", "b">>,
      <<"F", "o", "l", "d", "e", "r", ".", "j", "p", "g">>,
      <<"F", "o", "l", "d", "e", "r", ".", "g", "i", "f">>,
      <<"F", "o", "l", "d", "e", "r", ".", "p", "n", "g">>,
      <<"T", "h", "u", "m", "b", "s", ".", "d", "b", ":", "e", "n", "c", "r", "y", "p", "t", "a", "b", "l", "e">> }

isVideoFile(filename) ==
    IF filename \in filesToSkip THEN FALSE
    ELSE LET ext == toLowerCase(extname(filename))
         IN  IF ext = <<>> THEN FALSE
             ELSE (<<".">> \o ext) \in videoExtensions

(***************************************************************************)
(* VideoIndexer.generateId.  basename() of @tauri-apps/api/path returns a  *)
(* Promise and generateId does not await it, so the template literal       *)
(* renders it as "[object Promise]"; the folder path does not reach the    *)
(* id.                                                                     *)
(***************************************************************************)
IdChars ==
    {"a", "b", "c", "d", "e", "f", "g", "h", "i", "j", "k", "l", "m",
     "n", "o", "p", "q", "r", "s", "t", "u", "v", "w", "x", "y", "z",
     "A", "B", "C", "D", "E", "F", "G", "H", "I", "J", "K", "L", "M",
     "N", "O", "P", "Q", "R", "S", "T", "U", "V", "W", "X", "Y", "Z",
     "0", "1", "2", "3", "4", "5", "6", "7", "8", "9", "_", "-"}

\* String.replace(/[^a-zA-Z0-9_-]/g, '_')
Sanitize(s) == [i \in 1..Len(s) |-> IF s[i] \in IdChars THEN s[i] ELSE "_"]

PromiseString ==
    <<"[", "o", "b", "j", "e", "c", "t", " ", "P", "r", "o", "m", "i", "s", "e", "]">>

generateId(fileName, folderPath) ==
    Sanitize(PromiseString \o <<"_">> \o fileName)


(***************************************************************************)
(* State.                                                                  *)
(***************************************************************************)
VARIABLES
    store,              \* rows of table `videos`, in rowid order
    tree,               \* the directory tree on disk
    mtime,              \* full path of a file -> its modification time
    rootLost,           \* the root stopped being listable after a crawl
    broken,             \* files replaced by something ffprobe cannot read
    phase,              \* "idle", "root" (root files) or "lanes"
    pass,               \* crawls started so far
    variant,            \* "threaded": indexDirectoryWithThreading, "single": indexDirectory
    maxConcurrent,      \* lane count the crawls are called with
    lanes,              \* lane -> its work; lane 0 handles the root files
    totalIndexedCount,  \* local of indexDirectoryWithThreading
    result,             \* what the last crawl returned or raised
    nWrites,            \* addVideo calls of the current crawl
    nEvents,            \* progress events of the current crawl
    nComplete,          \* progress events with isComplete of the current crawl
    lastEvent,          \* the last progress event emitted
    handled,            \* files handled in the current crawl, with lane and outcome
    touched,            \* a file was modified since the last crawl ended
    passQuiet,          \* the running crawl directly follows an undisturbed crawl
    pending,            \* store client -> the upsert it has in flight
    log,                \* store operations executed, oldest first
    call,               \* the last query of the store: its name and arguments
    answer,             \* what that query returned
    session,            \* a listing and the pages fetched after it, concatenated
    clock,              \* the clock (Date.now()), in hours
    cacheFile,          \* the document storage_stats.json
    bulk,               \* storage analysis step by step: the directories
    walk,               \* storage analysis step by step: the pass
    verdict,            \* the classifier on its own: a name and the outcome
    callbacks,          \* progressCallback and storageProgressCallback
    observed,           \* what was registered and what each observer received
    passes,             \* analysis passes that overlap: where each one is
    conn,               \* VideoStore: db, isInitialized and the callers of initialize
    reader,             \* a getVideosPaginated call in progress
    items,              \* createThreadGroups on its own: the items
    threadCount,        \* createThreadGroups on its own: the thread count
    groups              \* createThreadGroups on its own: the result

fsVars     == <<tree, mtime, rootLost, broken>>
callVars   == <<variant, maxConcurrent>>
crawlVars  == <<phase, pass, callVars, lanes, totalIndexedCount, result>>
ghostVars  == <<nWrites, nEvents, nComplete, lastEvent, handled, touched, passQuiet>>
walkVars   == <<bulk, walk>>
slotVars   == <<callbacks, observed>>
lateVars   == <<passes, conn, reader>>
extraVars  == <<walkVars, verdict, slotVars, lateVars>>
cacheVars  == <<clock, cacheFile, extraVars>>
clientVars == <<pending, log, call, answer, session, cacheVars>>
groupVars  == <<items, threadCount, groups>>
vars == <<store, fsVars, crawlVars, ghostVars, clientVars, groupVars>>

(***************************************************************************)
(* VideoStore.                                                             *)
(***************************************************************************)
\* SELECT * FROM videos WHERE full_path = ?; result[0] or null (here <<>>)
getVideoByPath(rows, fullPath) ==
    LET res == SelectSeq(rows, LAMBDA r : r.full_path = fullPath)
    IN  IF Len(res) > 0 THEN <<res[1]>> ELSE <<>>

\* a plausible slip: INSERT OR IGNORE, which keeps the old row on a conflict
addVideoOrIgnore(rows, video) ==
    IF \E i \in 1..Len(rows) :
          rows[i].id = video.id \/ rows[i].full_path = video.full_path
      THEN rows
      ELSE Append(rows, video)

\* INSERT OR REPLACE: id is the PRIMARY KEY and full_path is UNIQUE, so
\* every row that conflicts on either is deleted before the new row is added
addVideo(rows, video) ==
    Append(SelectSeq(rows, LAMBDA r : r.id # video.id /\ r.full_path # video.full_path),
           video)

\* DELETE FROM videos WHERE id = ?
deleteVideo(rows, id) == SelectSeq(rows, LAMBDA r : r.id # id)

\* DELETE FROM videos
clearVideos(rows) == <<>>

(***************************************************************************)
(* The directory tree: a root with subdirectories d1..dn; d1 may hold a    *)
(* subdirectory that is again named d2.  A file entry carries what stat    *)
(* and the probe report for it: stream = 0 stands for a file in which      *)
(* ffprobe finds no video stream, any other value for its metadata.        *)
(*                                                                         *)
(* probe is how the two ffprobe runs of extractVideoMetadata go for the    *)
(* file: whether Command.execute resolves at all (spawn), the exit code of *)
(* `ffprobe -version` (testCode), the exit code of the probe of the file   *)
(* (code), and what its stdout is: no JSON ("garbage"), the JSON null,     *)
(* JSON without streams, with audio streams only, or with a video stream.  *)
(***************************************************************************)
ProbeRuns ==
    [spawn : BOOLEAN, testCode : {0, 1}, code : {0, 1},
     stdout : {"garbage", "null", "nostreams", "audio", "video"}]

ProbeVideo == [spawn |-> TRUE, testCode |-> 0, code |-> 0, stdout |-> "video"]

ProbeExit1 == [spawn |-> TRUE, testCode |-> 0, code |-> 1, stdout |-> "garbage"]

ProbeGarbage == [spawn |-> TRUE, testCode |-> 0, code |-> 0, stdout |-> "garbage"]

FileA == [name |-> NameA, stream |-> 1, size |-> 5, ctime |-> 1, probe |-> ProbeVideo]
FileB == [name |-> NameB, stream |-> 2, size |-> 7, ctime |-> 2, probe |-> ProbeVideo]
FileN == [name |-> NameN, stream |-> 0, size |-> 3, ctime |-> 1, probe |-> ProbeExit1]
FileT == [name |-> NameT, stream |-> 0, size |-> 1, ctime |-> 1, probe |-> ProbeExit1]

DirContents == { <<>>, <<FileA>>, <<FileT, FileN, FileB>> }

SubdirPath(i) == join(RootPath, DirName(i))

NestedPath == join(SubdirPath(1), DirName(2))

TreeDirs(nsub, nested) ==
    {RootPath} \cup { SubdirPath(i) : i \in 1..nsub }
               \cup (IF nested THEN {NestedPath} ELSE {})

\* the trees the crawls run on: at most one directory cannot be listed
Trees ==
    UNION { { [nsub |-> n, nested |-> b, files |-> f, unreadable |-> u] :
                f \in [TreeDirs(n, b) -> DirContents],
                u \in {{}} \cup { {d} : d \in TreeDirs(n, b) } } :
            n \in 0..MaxSubdirs, b \in BOOLEAN } 

WellFormedTree(t) == t.nested => t.nsub >= 1

FilePaths(t) ==
    UNION { { join(d, t.files[d][i].name) : i \in 1..Len(t.files[d]) } :
            d \in DOMAIN t.files }

\* readDir(directoryPath) rejects
readDirFails(directoryPath) ==
    \/ directoryPath \in tree.unreadable
    \/ directoryPath = RootPath /\ rootLost

\* readDir(directoryPath).filter(entry => entry.isFile)
readDirFiles(directoryPath) == tree.files[directoryPath]

\* readDir(directoryPath).filter(entry => !entry.isFile), names only
readDirSubdirs(directoryPath) ==
    IF directoryPath = RootPath THEN [i \in 1..tree.nsub |-> DirName(i)]
    ELSE IF directoryPath = SubdirPath(1) /\ tree.nested THEN <<DirName(2)>>
    ELSE <<>>

\* stat(filePath) of @tauri-apps/plugin-fs succeeds for every listed file
getFileStats(fullPath, file) ==
    [mtime |-> mtime[fullPath], ctime |-> file.ctime, size |-> file.size]

\* how ffprobe goes for a file now: a file replaced by something that is
\* no media file makes ffprobe print nothing that parses
probeOf(filePath, file) == IF filePath \in broken THEN ProbeGarbage ELSE file.probe

\* the body of extractVideoMetadata for one run of the probe; null is 0.
\* Every throw inside it (execute rejecting, the Error for a non-zero exit
\* code, JSON.parse, reading a property of null) lands in its own catch.
extractFrom(run, stream) ==
    IF ~run.spawn THEN 0
    ELSE IF run.testCode # 0 THEN 0
    ELSE IF run.code # 0 THEN 0
    ELSE IF run.stdout = "garbage" THEN 0
    ELSE IF run.stdout = "null" THEN 0
    ELSE IF run.stdout \in {"nostreams", "audio"} THEN 0
    ELSE stream

extractVideoMetadata(filePath, file) == extractFrom(probeOf(filePath, file), file.stream)

(***************************************************************************)
(* VideoIndexer.createThreadGroups: round-robin distribution.              *)
(***************************************************************************)
RECURSIVE pushRoundRobin(_, _, _, _)
pushRoundRobin(gs, its, index, n) ==
    IF index >= Len(its) THEN gs
    ELSE pushRoundRobin([gs EXCEPT ![(index % n) + 1] = Append(@, its[index + 1])],
                        its, index + 1, n)

\* a plausible slip: the thread index taken from the 1-based position
createThreadGroupsShifted(its, n) ==
    pushRoundRobin([g \in 1..n |-> <<>>], <<0>> \o its, 1, n)

\* a plausible slip: Array(threadCount).fill([]) makes every group the same array
createThreadGroupsShared(its, n) == [g \in 1..n |-> its]

\* groups[g] (1-based here) is the source's groups[g - 1]
createThreadGroups(its, n) ==
    pushRoundRobin([g \in 1..n |-> <<>>], its, 0, n)

(***************************************************************************)
(* The record processFilesInDirectory builds for a file.                   *)
(***************************************************************************)
\* codec_name of the video stream; not every stream reports one
codecOf(videoData) == IF videoData = 1 THEN << <<"h", "2", "6", "4">> >> ELSE <<>>

VideoIndexEntry(fullPath, fileName, stats, videoData, now) ==
    [id            |-> generateId(fileName, dirname(fullPath)),
     folder_name   |-> basename(dirname(fullPath)),
     full_path     |-> fullPath,
     file_name     |-> fileName,
     file_size     |-> stats.size,
     creation_date |-> stats.ctime,
     modified_date |-> stats.mtime,
     meta          |-> videoData,
     codec         |-> codecOf(videoData),
     indexed_at    |-> now]

indexEntry(directoryPath, file) ==
    LET fullPath == join(directoryPath, file.name)
    IN  VideoIndexEntry(fullPath, file.name, getFileStats(fullPath, file),
                        extractVideoMetadata(fullPath, file), pass)

(***************************************************************************)
(* Initial state: an empty store, some tree, no crawl running.             *)
(***************************************************************************)
NoEvent == [indexedCount |-> 0, isComplete |-> FALSE, kind |-> "none", writes |-> 0]

NoResult == [status |-> "none", count |-> 0]

NoLanes == [l \in {} |-> 0]

NoCacheFile == [kind |-> "absent", entries |-> <<>>]

NoBulk == [entries |-> <<>>, unlistable |-> {}]

NoStorageEvent ==
    [currentPath |-> <<>>, filesProcessed |-> 0, totalSize |-> 0,
     isComplete |-> FALSE, totalFiles |-> 0]

NoWalk ==
    [pc |-> "idle", stack |-> <<>>, stats |-> <<>>, events |-> 0,
     last |-> NoStorageEvent]

NoVerdict == [name |-> <<>>, outcome |-> "none"]

Observers == {"a", "b"}

\* no callback registered: both fields undefined
NoCallbacks == [progress |-> "none", storage |-> "none"]

NoObserved ==
    [registered |-> [slot \in {"progress", "storage"} |-> <<>>],
     received   |-> [slot \in {"progress", "storage"} |-> [o \in Observers |-> 0]],
     emitted    |-> [slot \in {"progress", "storage"} |-> 0],
     running    |-> FALSE]

SlotsIdle ==
    /\ callbacks = NoCallbacks
    /\ observed = NoObserved

NoPasses == <<>>

NoConn == <<>>

NoReader == <<>>

LateIdle ==
    /\ passes = NoPasses
    /\ conn = NoConn
    /\ reader = NoReader

\* what is not in use outside the specification that moves it
ExtraIdle ==
    /\ bulk = NoBulk
    /\ walk = NoWalk
    /\ verdict = NoVerdict
    /\ SlotsIdle
    /\ LateIdle

NoCall == [op |-> "none", sortBy |-> "", page |-> 0, pageSize |-> 0, arg |-> <<>>]

NoSession == [sortBy |-> "", pageSize |-> 0, page |-> 0, listing |-> <<>>,
              videos |-> <<>>, open |-> FALSE, done |-> FALSE]

IdleCore ==
    /\ store = <<>>
    /\ rootLost = FALSE
    /\ broken = {}
    /\ phase = "idle"
    /\ pass = 0
    /\ lanes = NoLanes
    /\ totalIndexedCount = 0
    /\ result = NoResult
    /\ nWrites = 0
    /\ nEvents = 0
    /\ nComplete = 0
    /\ lastEvent = NoEvent
    /\ handled = {}
    /\ touched = FALSE
    /\ passQuiet = FALSE
    /\ log = <<>>
    /\ call = NoCall
    /\ answer = <<>>
    /\ session = NoSession
    /\ clock = 0
    /\ cacheFile = NoCacheFile
    /\ items = <<>>
    /\ threadCount = 0
    /\ groups = <<>>

IdleRest == IdleCore /\ ExtraIdle

Init ==
    /\ tree \in { t \in Trees : WellFormedTree(t) }
    /\ mtime = [p \in FilePaths(tree) |-> 1]
    /\ \/ variant = "threaded" /\ maxConcurrent \in 1..MaxLanes
       \/ variant = "single" /\ maxConcurrent = 1
    /\ pending = <<>>
    /\ IdleRest

(***************************************************************************)
(* A lane is the work of one thread of indexDirectoryWithThreading: the    *)
(* folders still assigned to it and the stack of indexDirectoryRecursive   *)
(* calls it is in.  A frame holds the locals of one call: the files and    *)
(* subdirectories not yet visited, indexedCount of the call, the           *)
(* indexedCount of its processFilesInDirectory call (fileCount), and       *)
(* whether the first remaining file has passed the already-indexed check   *)
(* and waits for its metadata (write).                                     *)
(***************************************************************************)
Frame(directoryPath, withSubdirs) ==
    [dir          |-> directoryPath,
     files        |-> readDirFiles(directoryPath),
     subdirs      |-> IF withSubdirs THEN readDirSubdirs(directoryPath) ELSE <<>>,
     indexedCount |-> 0,
     fileCount    |-> 0,
     write        |-> FALSE]

Top(l) == Last(lanes[l].stack)

SetTop(l, f) == [lanes EXCEPT ![l].stack = [@ EXCEPT ![Len(@)] = f]]

LaneFinished(l) == lanes[l].stack = <<>> /\ lanes[l].folders = <<>>

Running == phase \in {"root", "lanes", "single"}

\* emitProgress(indexedCount, currentFile, isComplete), w the writes so far
Emitted(indexedCount, isComplete, kind, w) ==
    /\ nEvents' = nEvents + 1
    /\ nComplete' = nComplete + (IF isComplete THEN 1 ELSE 0)
    /\ lastEvent' = [indexedCount |-> indexedCount, isComplete |-> isComplete,
                     kind |-> kind, writes |-> w]

\* a plausible slip: the catch of indexDirectoryWithThreading logging the
\* error and finishing the crawl with 0 instead of throwing it again
StartCrawlSwallows ==
    /\ variant = "threaded"
    /\ phase = "idle"
    /\ pass < MaxPasses
    /\ pass' = pass + 1
    /\ passQuiet' = (pass >= 1 /\ ~touched /\ result.status = "ok")
    /\ touched' = FALSE
    /\ nWrites' = 0
    /\ handled' = {}
    /\ totalIndexedCount' = 0
    /\ IF readDirFails(RootPath)
         THEN /\ phase' = "idle"
              /\ lanes' = NoLanes
              /\ result' = [status |-> "ok", count |-> 0]
              /\ nEvents' = 1
              /\ nComplete' = 1
              /\ lastEvent' = [indexedCount |-> 0, isComplete |-> TRUE,
                               kind |-> "final", writes |-> 0]
         ELSE /\ phase' = "root"
              /\ lanes' = [l \in {0} |->
                             [folders |-> <<>>,
                              stack |-> << Frame(RootPath, FALSE) >>,
                              threadTotalCount |-> 0]]
              /\ result' = NoResult
              /\ nEvents' = 0
              /\ nComplete' = 0
              /\ lastEvent' = NoEvent
    /\ UNCHANGED <<store, fsVars, callVars, clientVars, groupVars>>

(***************************************************************************)
(* indexDirectoryWithThreading: list the root.  A root that cannot be      *)
(* listed makes the crawl throw.                                           *)
(***************************************************************************)
StartCrawl ==
    /\ variant = "threaded"
    /\ phase = "idle"
    /\ pass < MaxPasses
    /\  /\ pass' = pass + 1
        /\ passQuiet' = (pass >= 1 /\ ~touched /\ result.status = "ok")
        /\ touched' = FALSE
        /\ nWrites' = 0
        /\ nEvents' = 0
        /\ nComplete' = 0
        /\ lastEvent' = NoEvent
        /\ handled' = {}
        /\ totalIndexedCount' = 0
        /\ IF readDirFails(RootPath)
             THEN /\ phase' = "idle"
                  /\ lanes' = NoLanes
                  /\ result' = [status |-> "raised", count |-> 0]
             ELSE /\ phase' = "root"
                  /\ lanes' = [l \in {0} |->
                                 [folders |-> <<>>,
                                  stack |-> << Frame(RootPath, FALSE) >>,
                                  threadTotalCount |-> 0]]
                  /\ result' = NoResult
    /\ UNCHANGED <<store, fsVars, callVars, clientVars, groupVars>>

(***************************************************************************)
(* processFilesInDirectory, first half of the loop body: the classifier    *)
(* and the already-indexed check.                                          *)
(***************************************************************************)
FileCheck(l) ==
    /\ phase \in {"root", "lanes"}
    /\ l \in DOMAIN lanes
    /\ lanes[l].stack # <<>>
    /\ Top(l).files # <<>>
    /\ ~Top(l).write
    /\ LET file     == Head(Top(l).files)
           fullPath == join(Top(l).dir, file.name)
           existingEntry == getVideoByPath(store, fullPath)
       IN  IF ~isVideoFile(file.name)
             THEN /\ lanes' = SetTop(l, [Top(l) EXCEPT !.files = Tail(@)])
                  /\ handled' = handled \cup
                        {[path |-> fullPath, lane |-> l, outcome |-> "notvideo"]}
             ELSE IF /\ existingEntry # <<>>
                     /\ getFileStats(fullPath, file).mtime = existingEntry[1].modified_date
               THEN /\ lanes' = SetTop(l, [Top(l) EXCEPT !.files = Tail(@)])
                    /\ handled' = handled \cup
                          {[path |-> fullPath, lane |-> l, outcome |-> "skipped"]}
               ELSE /\ lanes' = SetTop(l, [Top(l) EXCEPT !.write = TRUE])
                    /\ handled' = handled
    /\ UNCHANGED <<store, fsVars, phase, pass, callVars, totalIndexedCount, result,
                   nWrites, nEvents, nComplete, lastEvent, touched, passQuiet,
                   clientVars, groupVars>>

\* a plausible slip: processFilesInDirectory without `if (videoData)`, so
\* that a file is stored whatever the probe gave
FileWriteUnchecked(l) ==
    /\ phase \in {"root", "lanes"}
    /\ l \in DOMAIN lanes
    /\ lanes[l].stack # <<>>
    /\ Top(l).files # <<>>
    /\ Top(l).write
    /\ LET file     == Head(Top(l).files)
           fullPath == join(Top(l).dir, file.name)
       IN  /\ store' = addVideo(store, indexEntry(Top(l).dir, file))
           /\ nWrites' = nWrites + 1
           /\ lanes' = SetTop(l, [Top(l) EXCEPT !.files = Tail(@), !.write = FALSE,
                                                !.fileCount = @ + 1])
           /\ Emitted(Top(l).fileCount + 1, FALSE, "file", nWrites + 1)
           /\ handled' = handled \cup
                 {[path |-> fullPath, lane |-> l,
                   outcome |-> IF extractVideoMetadata(fullPath, file) = 0
                                 THEN "nostream" ELSE "written"]}
    /\ UNCHANGED <<fsVars, phase, pass, callVars, totalIndexedCount, result,
                   touched, passQuiet, clientVars, groupVars>>

(***************************************************************************)
(* processFilesInDirectory, second half: extract the metadata, build the   *)
(* record, addVideo, count it and emit the progress event.                 *)
(***************************************************************************)
FileWrite(l) ==
    /\ phase \in {"root", "lanes"}
    /\ l \in DOMAIN lanes
    /\ lanes[l].stack # <<>>
    /\ Top(l).files # <<>>
    /\ Top(l).write
    /\ LET file     == Head(Top(l).files)
           fullPath == join(Top(l).dir, file.name)
       IN  IF extractVideoMetadata(fullPath, file) = 0
             THEN /\ lanes' = SetTop(l, [Top(l) EXCEPT !.files = Tail(@), !.write = FALSE])
                  /\ handled' = handled \cup
                        {[path |-> fullPath, lane |-> l, outcome |-> "nostream"]}
                  /\ UNCHANGED <<store, nWrites, nEvents, nComplete, lastEvent>>
             ELSE /\ store' = addVideo(store, indexEntry(Top(l).dir, file))
                  /\ nWrites' = nWrites + 1
                  /\ lanes' = SetTop(l, [Top(l) EXCEPT !.files = Tail(@), !.write = FALSE,
                                                       !.fileCount = @ + 1])
                  /\ Emitted(Top(l).fileCount + 1, FALSE, "file", nWrites + 1)
                  /\ handled' = handled \cup
                        {[path |-> fullPath, lane |-> l, outcome |-> "written"]}
    /\ UNCHANGED <<fsVars, phase, pass, callVars, totalIndexedCount, result,
                   touched, passQuiet, clientVars, groupVars>>

\* the lanes started without waiting for the files of the root
RootDoneEarly ==
    /\ phase = "root"
    /\ LET rootFilesCount == Top(0).fileCount
           directories    == readDirSubdirs(RootPath)
           threadGroups   == createThreadGroups(directories, maxConcurrent)
       IN  /\ totalIndexedCount' = totalIndexedCount + rootFilesCount
           /\ IF Len(directories) > 0
                THEN /\ phase' = "lanes"
                     /\ items' = directories
                     /\ threadCount' = maxConcurrent
                     /\ groups' = threadGroups
                     /\ lanes' = [g \in 1..maxConcurrent |->
                                    [folders |-> threadGroups[g],
                                     stack |-> <<>>,
                                     threadTotalCount |-> 0]]
                     /\ Emitted(totalIndexedCount', FALSE, "root", nWrites)
                     /\ result' = result
                ELSE /\ phase' = "idle"
                     /\ lanes' = NoLanes
                     /\ nEvents' = nEvents + 2
                     /\ nComplete' = nComplete + 1
                     /\ lastEvent' = [indexedCount |-> totalIndexedCount',
                                      isComplete |-> TRUE, kind |-> "final",
                                      writes |-> nWrites]
                     /\ result' = [status |-> "ok", count |-> totalIndexedCount']
                     /\ UNCHANGED groupVars
    /\ UNCHANGED <<store, fsVars, pass, callVars, nWrites, handled, touched,
                   passQuiet, clientVars>>

(***************************************************************************)
(* indexDirectoryWithThreading after the root files: add their count,      *)
(* emit it, distribute the subdirectories and start the lanes; without     *)
(* subdirectories emit the final event and return at once.                 *)
(***************************************************************************)
RootDone ==
    /\ phase = "root"
    /\ Top(0).files = <<>>
    /\ LET rootFilesCount == Top(0).fileCount
           directories    == readDirSubdirs(RootPath)
           threadGroups   == createThreadGroups(directories, maxConcurrent)
       IN  /\ totalIndexedCount' = totalIndexedCount + rootFilesCount
           /\ IF Len(directories) > 0
                THEN /\ phase' = "lanes"
                     /\ items' = directories
                     /\ threadCount' = maxConcurrent
                     /\ groups' = threadGroups
                     /\ lanes' = [g \in 1..maxConcurrent |->
                                    [folders |-> threadGroups[g],
                                     stack |-> <<>>,
                                     threadTotalCount |-> 0]]
                     /\ Emitted(totalIndexedCount', FALSE, "root", nWrites)
                     /\ result' = result
                ELSE /\ phase' = "idle"
                     /\ lanes' = NoLanes
                     /\ nEvents' = nEvents + 2
                     /\ nComplete' = nComplete + 1
                     /\ lastEvent' = [indexedCount |-> totalIndexedCount',
                                      isComplete |-> TRUE, kind |-> "final",
                                      writes |-> nWrites]
                     /\ result' = [status |-> "ok", count |-> totalIndexedCount']
                     /\ UNCHANGED groupVars
    /\ UNCHANGED <<store, fsVars, pass, callVars, nWrites, handled, touched,
                   passQuiet, clientVars>>

\* a lane that takes the folder assigned to it last
EnterFolderFromEnd(l) ==
    /\ phase = "lanes"
    /\ l \in DOMAIN lanes
    /\ lanes[l].stack = <<>>
    /\ lanes[l].folders # <<>>
    /\ LET subDirPath == join(RootPath, Last(lanes[l].folders))
       IN  IF readDirFails(subDirPath)
             THEN /\ lanes' = [lanes EXCEPT ![l].folders = Front(@)]
                  /\ Emitted(totalIndexedCount + lanes[l].threadTotalCount,
                             FALSE, "folder", nWrites)
             ELSE /\ lanes' = [lanes EXCEPT ![l].folders = Front(@),
                                            ![l].stack = << Frame(subDirPath, TRUE) >>]
                  /\ UNCHANGED <<nEvents, nComplete, lastEvent>>
    /\ UNCHANGED <<store, fsVars, phase, pass, callVars, totalIndexedCount, result,
                   nWrites, handled, touched, passQuiet, clientVars, groupVars>>

(***************************************************************************)
(* A lane takes its next folder and calls indexDirectoryRecursive on it.   *)
(* When the folder cannot be listed the call catches the error and         *)
(* returns 0; the lane adds it and emits its progress.                     *)
(***************************************************************************)
EnterFolder(l) ==
    /\ phase = "lanes"
    /\ l \in DOMAIN lanes
    /\ lanes[l].stack = <<>>
    /\ lanes[l].folders # <<>>
    /\ LET subDirPath == join(RootPath, Head(lanes[l].folders))
       IN  IF readDirFails(subDirPath)
             THEN /\ lanes' = [lanes EXCEPT ![l].folders = Tail(@)]
                  /\ Emitted(totalIndexedCount + lanes[l].threadTotalCount,
                             FALSE, "folder", nWrites)
             ELSE /\ lanes' = [lanes EXCEPT ![l].folders = Tail(@),
                                            ![l].stack = << Frame(subDirPath, TRUE) >>]
                  /\ UNCHANGED <<nEvents, nComplete, lastEvent>>
    /\ UNCHANGED <<store, fsVars, phase, pass, callVars, totalIndexedCount, result,
                   nWrites, handled, touched, passQuiet, clientVars, groupVars>>

(***************************************************************************)
(* indexDirectoryRecursive: the files of the directory are done, descend   *)
(* into its next subdirectory.  A subdirectory that cannot be listed       *)
(* contributes 0 and the loop goes on.                                     *)
(***************************************************************************)
Descend(l) ==
    /\ phase = "lanes"
    /\ l \in DOMAIN lanes
    /\ lanes[l].stack # <<>>
    /\ Top(l).files = <<>>
    /\ Top(l).subdirs # <<>>
    /\ LET subDirPath == join(Top(l).dir, Head(Top(l).subdirs))
           rest       == SetTop(l, [Top(l) EXCEPT !.subdirs = Tail(@)])
       IN  IF readDirFails(subDirPath)
             THEN lanes' = rest
             ELSE lanes' = [rest EXCEPT ![l].stack = Append(@, Frame(subDirPath, TRUE))]
    /\ UNCHANGED <<store, fsVars, phase, pass, callVars, totalIndexedCount, result,
                   ghostVars, clientVars, groupVars>>

(***************************************************************************)
(* indexDirectoryRecursive returns its count to its caller: to the         *)
(* enclosing call, or to the lane, which adds it to threadTotalCount and   *)
(* emits totalIndexedCount + threadTotalCount.                             *)
(***************************************************************************)
Return(l) ==
    /\ phase = "lanes"
    /\ l \in DOMAIN lanes
    /\ lanes[l].stack # <<>>
    /\ Top(l).files = <<>>
    /\ Top(l).subdirs = <<>>
    /\ LET count  == Top(l).indexedCount + Top(l).fileCount
           callers == Front(lanes[l].stack)
       IN  IF callers # <<>>
             THEN /\ lanes' = [lanes EXCEPT ![l].stack =
                                 [callers EXCEPT ![Len(callers)].indexedCount = @ + count]]
                  /\ UNCHANGED <<nEvents, nComplete, lastEvent>>
             ELSE /\ lanes' = [lanes EXCEPT ![l].stack = <<>>,
                                            ![l].threadTotalCount = @ + count]
                  /\ Emitted(totalIndexedCount + lanes[l].threadTotalCount + count,
                             FALSE, "folder", nWrites)
    /\ UNCHANGED <<store, fsVars, phase, pass, callVars, totalIndexedCount, result,
                   nWrites, handled, touched, passQuiet, clientVars, groupVars>>

(***************************************************************************)
(* Promise.all(threadPromises) resolves: sum the lanes' counts, emit the   *)
(* final event, return the total.                                          *)
(***************************************************************************)
threadCounts == [l \in 1..maxConcurrent |-> lanes[l].threadTotalCount]

\* a plausible slip: Promise.race in place of Promise.all
JoinRace ==
    /\ phase = "lanes"
    /\ \E l \in DOMAIN lanes : LaneFinished(l)
    /\ totalIndexedCount' = totalIndexedCount + SumSeq(threadCounts)
    /\ Emitted(totalIndexedCount', TRUE, "final", nWrites)
    /\ result' = [status |-> "ok", count |-> totalIndexedCount']
    /\ phase' = "idle"
    /\ lanes' = NoLanes
    /\ UNCHANGED <<store, fsVars, pass, callVars, nWrites, handled, touched,
                   passQuiet, clientVars, groupVars>>

Join ==
    /\ phase = "lanes"
    /\ \A l \in DOMAIN lanes : LaneFinished(l)
    /\ totalIndexedCount' = totalIndexedCount + SumSeq(threadCounts)
    /\ Emitted(totalIndexedCount', TRUE, "final", nWrites)
    /\ result' = [status |-> "ok", count |-> totalIndexedCount']
    /\ phase' = "idle"
    /\ lanes' = NoLanes
    /\ UNCHANGED <<store, fsVars, pass, callVars, nWrites, handled, touched,
                   passQuiet, clientVars, groupVars>>

\* the files the classifier accepts and in which the probe finds a video stream
IndexableFiles ==
    UNION { { join(d, tree.files[d][i].name) :
                i \in { j \in 1..Len(tree.files[d]) :
                          /\ isVideoFile(tree.files[d][j].name)
                          /\ extractVideoMetadata(join(d, tree.files[d][j].name),
                                                  tree.files[d][j]) # 0 } } :
            d \in DOMAIN tree.files }

(***************************************************************************)
(* Between two crawls a video on disk may be modified (a file the crawl    *)
(* never stores has no modification time the crawl looks at).              *)
(***************************************************************************)
Touch ==
    /\ phase = "idle"
    /\ pass >= 1
    /\ pass < MaxPasses
    /\ ~touched
    /\ \E p \in IndexableFiles : mtime' = [mtime EXCEPT ![p] = @ + 1]
    /\ touched' = TRUE
    /\ UNCHANGED <<store, tree, rootLost, broken, crawlVars, nWrites, nEvents, nComplete, lastEvent,
                   handled, passQuiet, clientVars, groupVars>>

(***************************************************************************)
(* Between two crawls a stored video may be replaced by a file of the same *)
(* name that is no video any more: its modification time changes and the   *)
(* probe of it fails from then on.                                         *)
(***************************************************************************)
Corrupt ==
    /\ phase = "idle"
    /\ pass >= 1
    /\ pass < MaxPasses
    /\ ~touched
    /\ \E p \in IndexableFiles :
          /\ mtime' = [mtime EXCEPT ![p] = @ + 1]
          /\ broken' = broken \cup {p}
    /\ touched' = TRUE
    /\ UNCHANGED <<store, tree, rootLost, crawlVars, nWrites, nEvents, nComplete,
                   lastEvent, handled, passQuiet, clientVars, groupVars>>

(***************************************************************************)
(* Between two crawls the root may stop being listable (unmounted, removed *)
(* or its permissions changed): readDir of it rejects from then on.        *)
(***************************************************************************)
LoseRoot ==
    /\ phase = "idle"
    /\ pass >= 1
    /\ pass < MaxPasses
    /\ ~touched
    /\ ~readDirFails(RootPath)
    /\ rootLost' = TRUE
    /\ UNCHANGED <<store, tree, mtime, broken, crawlVars, ghostVars, clientVars, groupVars>>

(***************************************************************************)
(* indexDirectory, the single-lane variant: one recursion over the whole   *)
(* tree, kept as the stack of lane 0.  It walks the entries of a           *)
(* directory in listing order, files and subdirectories mixed; the order   *)
(* of a listing is the operating system's, so at every entry the next      *)
(* file or the next subdirectory may come first.  It emits no progress     *)
(* event and stores file_size 0.                                           *)
(***************************************************************************)
StartIndexDirectory ==
    /\ variant = "single"
    /\ phase = "idle"
    /\ pass < MaxPasses
    /\ pass' = pass + 1
    /\ passQuiet' = (pass >= 1 /\ ~touched /\ result.status = "ok")
    /\ touched' = FALSE
    /\ nWrites' = 0
    /\ nEvents' = 0
    /\ nComplete' = 0
    /\ lastEvent' = NoEvent
    /\ handled' = {}
    /\ totalIndexedCount' = 0
    /\ IF readDirFails(RootPath)
         THEN /\ phase' = "idle"
              /\ lanes' = NoLanes
              /\ result' = [status |-> "raised", count |-> 0]
         ELSE /\ phase' = "single"
              /\ lanes' = [l \in {0} |->
                             [folders |-> <<>>,
                              stack |-> << Frame(RootPath, TRUE) >>,
                              threadTotalCount |-> 0]]
              /\ result' = NoResult
    /\ UNCHANGED <<store, fsVars, callVars, clientVars, groupVars>>

\* the loop body for a file, up to the already-indexed check
IndexDirectoryFileCheck ==
    /\ phase = "single"
    /\ Top(0).files # <<>>
    /\ ~Top(0).write
    /\ LET file     == Head(Top(0).files)
           fullPath == join(Top(0).dir, file.name)
           existingEntry == getVideoByPath(store, fullPath)
       IN  IF ~isVideoFile(file.name)
             THEN /\ lanes' = SetTop(0, [Top(0) EXCEPT !.files = Tail(@)])
                  /\ handled' = handled \cup
                        {[path |-> fullPath, lane |-> 0, outcome |-> "notvideo"]}
             ELSE IF /\ existingEntry # <<>>
                     /\ getFileStats(fullPath, file).mtime = existingEntry[1].modified_date
               THEN /\ lanes' = SetTop(0, [Top(0) EXCEPT !.files = Tail(@)])
                    /\ handled' = handled \cup
                          {[path |-> fullPath, lane |-> 0, outcome |-> "skipped"]}
               ELSE /\ lanes' = SetTop(0, [Top(0) EXCEPT !.write = TRUE])
                    /\ handled' = handled
    /\ UNCHANGED <<store, fsVars, phase, pass, callVars, totalIndexedCount, result,
                   nWrites, nEvents, nComplete, lastEvent, touched, passQuiet,
                   clientVars, groupVars>>

\* the loop body for a file, from extractVideoMetadata to indexedCount++
IndexDirectoryFileWrite ==
    /\ phase = "single"
    /\ Top(0).files # <<>>
    /\ Top(0).write
    /\ LET file     == Head(Top(0).files)
           fullPath == join(Top(0).dir, file.name)
       IN  IF extractVideoMetadata(fullPath, file) = 0
             THEN /\ lanes' = SetTop(0, [Top(0) EXCEPT !.files = Tail(@), !.write = FALSE])
                  /\ handled' = handled \cup
                        {[path |-> fullPath, lane |-> 0, outcome |-> "nostream"]}
                  /\ UNCHANGED <<store, nWrites>>
             ELSE /\ store' = addVideo(store,
                                 [indexEntry(Top(0).dir, file) EXCEPT !.file_size = 0])
                  /\ nWrites' = nWrites + 1
                  /\ lanes' = SetTop(0, [Top(0) EXCEPT !.files = Tail(@), !.write = FALSE,
                                                       !.fileCount = @ + 1])
                  /\ handled' = handled \cup
                        {[path |-> fullPath, lane |-> 0, outcome |-> "written"]}
    /\ UNCHANGED <<fsVars, phase, pass, callVars, totalIndexedCount, result,
                   nEvents, nComplete, lastEvent, touched, passQuiet, clientVars,
                   groupVars>>

\* the loop body for a subdirectory: the recursive call; when it throws
\* (its listing failed) the error is caught and logged and the loop goes on
IndexDirectoryDescend ==
    /\ phase = "single"
    /\ ~Top(0).write
    /\ Top(0).subdirs # <<>>
    /\ LET subDirPath == join(Top(0).dir, Head(Top(0).subdirs))
           rest       == SetTop(0, [Top(0) EXCEPT !.subdirs = Tail(@)])
       IN  IF readDirFails(subDirPath)
             THEN lanes' = rest
             ELSE lanes' = [rest EXCEPT ![0].stack = Append(@, Frame(subDirPath, TRUE))]
    /\ UNCHANGED <<store, fsVars, phase, pass, callVars, totalIndexedCount, result,
                   ghostVars, clientVars, groupVars>>

\* return indexedCount, to the enclosing call or to the caller of the crawl
IndexDirectoryReturn ==
    /\ phase = "single"
    /\ Top(0).files = <<>>
    /\ Top(0).subdirs = <<>>
    /\ LET count   == Top(0).indexedCount + Top(0).fileCount
           callers == Front(lanes[0].stack)
       IN  IF callers # <<>>
             THEN /\ lanes' = [lanes EXCEPT ![0].stack =
                                 [callers EXCEPT ![Len(callers)].indexedCount = @ + count]]
                  /\ UNCHANGED <<phase, result>>
             ELSE /\ lanes' = NoLanes
                  /\ phase' = "idle"
                  /\ result' = [status |-> "ok", count |-> count]
    /\ UNCHANGED <<store, fsVars, pass, callVars, totalIndexedCount, ghostVars,
                   clientVars, groupVars>>

LaneIds == 0..MaxLanes

ThreadedStep ==
    \/ \E l \in LaneIds : FileCheck(l)
    \/ \E l \in LaneIds : FileWrite(l)
    \/ RootDone
    \/ \E l \in LaneIds : EnterFolder(l)
    \/ \E l \in LaneIds : Descend(l)
    \/ \E l \in LaneIds : Return(l)
    \/ Join

Next ==
    \/ StartCrawl
    \/ \E l \in LaneIds : FileCheck(l)
    \/ \E l \in LaneIds : FileWrite(l)
    \/ RootDone
    \/ \E l \in LaneIds : EnterFolder(l)
    \/ \E l \in LaneIds : Descend(l)
    \/ \E l \in LaneIds : Return(l)
    \/ Join
    \/ StartIndexDirectory
    \/ IndexDirectoryFileCheck
    \/ IndexDirectoryFileWrite
    \/ IndexDirectoryDescend
    \/ IndexDirectoryReturn
    \/ Touch
    \/ Corrupt
    \/ LoseRoot

Spec == Init /\ [][Next]_vars

(***************************************************************************)
(* The store on its own: two clients (lanes) upsert records the record     *)
(* builder makes for files of two directories, and the index is cleared    *)
(* or a record deleted.  An addVideo call awaits initialize() before its   *)
(* statement runs, so the statements of overlapping calls run in either    *)
(* order.                                                                  *)
(***************************************************************************)
StoreClients == {1, 2}

ClientFiles ==
    { <<SubdirPath(1), FileA>>, <<SubdirPath(2), FileA>>, <<SubdirPath(1), FileB>> }

ClientVideos ==
    { VideoIndexEntry(join(df[1], df[2].name), df[2].name,
                      [mtime |-> 1, ctime |-> df[2].ctime, size |-> df[2].size], m, 0) :
        df \in ClientFiles, m \in 1..2 }

NoTree == [nsub |-> 0, nested |-> FALSE, files |-> [d \in {RootPath} |-> <<>>],
           unreadable |-> {}]

InitStore ==
    /\ tree = NoTree
    /\ mtime = [p \in {} |-> 1]
    /\ variant = "threaded"
    /\ maxConcurrent = 1
    /\ pending = [c \in StoreClients |-> <<>>]
    /\ IdleRest

InFlight == Cardinality({ c \in StoreClients : pending[c] # <<>> })

AddVideoCall(c, video) ==
    /\ pending[c] = <<>>
    /\ Len(log) + InFlight < MaxOps
    /\ pending' = [pending EXCEPT ![c] = <<video>>]
    /\ UNCHANGED <<store, fsVars, crawlVars, ghostVars, log, call, answer, session,
                   cacheVars, groupVars>>

AddVideoExec(c) ==
    /\ pending[c] # <<>>
    /\ store' = addVideo(store, pending[c][1])
    /\ log' = Append(log, [op |-> "addVideo", client |-> c, video |-> pending[c]])
    /\ pending' = [pending EXCEPT ![c] = <<>>]
    /\ UNCHANGED <<fsVars, crawlVars, ghostVars, call, answer, session, cacheVars,
                   groupVars>>

DeleteVideo(id) ==
    /\ Len(log) + InFlight < MaxOps
    /\ store' = deleteVideo(store, id)
    /\ log' = Append(log, [op |-> "deleteVideo", client |-> 0, video |-> <<>>])
    /\ UNCHANGED <<fsVars, crawlVars, ghostVars, pending, call, answer, session,
                   cacheVars, groupVars>>

ClearVideos ==
    /\ Len(log) + InFlight < MaxOps
    /\ store' = clearVideos(store)
    /\ log' = Append(log, [op |-> "clearVideos", client |-> 0, video |-> <<>>])
    /\ UNCHANGED <<fsVars, crawlVars, ghostVars, pending, call, answer, session,
                   cacheVars, groupVars>>

NextStore ==
    \/ \E c \in StoreClients, video \in ClientVideos : AddVideoCall(c, video)
    \/ \E c \in StoreClients : AddVideoExec(c)
    \/ \E video \in ClientVideos : DeleteVideo(video.id)
    \/ ClearVideos

StoreSpec == InitStore /\ [][NextStore]_vars

(***************************************************************************)
(* The queries of the store.                                               *)
(*                                                                         *)
(* TEXT columns compare byte by byte (collation BINARY); Ascii lists the   *)
(* characters that occur, in code order.                                   *)
(***************************************************************************)
Ascii ==
    <<"%", "-", ".", "0", "1", "2", "3", "4", "5", "6", "7", "8", "9",
      "A", "B", "C", "D", "E", "F", "G", "H", "I", "J", "K", "L", "M",
      "N", "O", "P", "Q", "R", "S", "T", "U", "V", "W", "X", "Y", "Z", "_",
      "a", "b", "c", "d", "e", "f", "g", "h", "i", "j", "k", "l", "m",
      "n", "o", "p", "q", "r", "s", "t", "u", "v", "w", "x", "y", "z">>

Code(c) == CHOOSE i \in 1..Len(Ascii) : Ascii[i] = c

RECURSIVE TextLess(_, _)
TextLess(a, b) ==
    IF b = <<>> THEN FALSE
    ELSE IF a = <<>> THEN TRUE
    ELSE IF Head(a) # Head(b) THEN Code(Head(a)) < Code(Head(b))
    ELSE TextLess(Tail(a), Tail(b))

SortKeys ==
    {"creation_date_desc", "creation_date_asc", "modified_date_desc",
     "modified_date_asc", "name_asc", "name_desc", "size_desc", "size_asc"}

\* the switch on sortBy of getVideosSorted and getVideosPaginated
orderByOf(sortBy) ==
    CASE sortBy = "creation_date_desc" -> [column |-> "creation_date", desc |-> TRUE]
      [] sortBy = "creation_date_asc"  -> [column |-> "creation_date", desc |-> FALSE]
      [] sortBy = "modified_date_desc" -> [column |-> "modified_date", desc |-> TRUE]
      [] sortBy = "modified_date_asc"  -> [column |-> "modified_date", desc |-> FALSE]
      [] sortBy = "name_asc"           -> [column |-> "file_name", desc |-> FALSE]
      [] sortBy = "name_desc"          -> [column |-> "file_name", desc |-> TRUE]
      [] sortBy = "size_desc"          -> [column |-> "file_size", desc |-> TRUE]
      [] sortBy = "size_asc"           -> [column |-> "file_size", desc |-> FALSE]
      [] OTHER                         -> [column |-> "creation_date", desc |-> TRUE]

\* row r1 sorts strictly before row r2 under ORDER BY ord
Before(r1, r2, ord) ==
    LET less(x, y) == IF ord.column = "file_name"
                        THEN TextLess(x.file_name, y.file_name)
                        ELSE x[ord.column] < y[ord.column]
    IN  IF ord.desc THEN less(r2, r1) ELSE less(r1, r2)

\* SELECT * FROM videos ORDER BY ord.  The statements name no second sort
\* term, and SQL leaves the order of rows equal on the sort terms to the
\* engine (to its plan: an index scanned forwards or backwards, a sorter,
\* a sorter cut down to the LIMIT); tie, a ranking of the rows, stands for
\* the order the engine happens to give such rows in one execution.
orderBy(rows, ord, tie) ==
    LET n == Len(rows)
        precedes(j, i) ==
            \/ Before(rows[j], rows[i], ord)
            \/ /\ ~Before(rows[i], rows[j], ord)
               /\ tie[j] < tie[i]
        pos(i) == 1 + Cardinality({ j \in 1..n : precedes(j, i) })
    IN  [k \in 1..n |-> rows[CHOOSE i \in 1..n : pos(i) = k]]

Ties(rows) == Permutations(1..Len(rows))

\* LIMIT ? OFFSET ?
limitOffset(rows, limit, offset) ==
    IF offset >= Len(rows) THEN <<>>
    ELSE SubSeq(rows, offset + 1,
                IF offset + limit < Len(rows) THEN offset + limit ELSE Len(rows))

mapRowToEntry(row) ==
    [id            |-> row.id,
     folder_name   |-> row.folder_name,
     full_path     |-> row.full_path,
     file_name     |-> row.file_name,
     file_size     |-> row.file_size,
     creation_date |-> row.creation_date,
     modified_date |-> row.modified_date,
     meta          |-> row.meta,
     codec         |-> row.codec,
     indexed_at    |-> row.indexed_at]

mapRows(rows) == [k \in 1..Len(rows) |-> mapRowToEntry(rows[k])]

getVideosSorted(rows, sortBy, tie) == mapRows(orderBy(rows, orderByOf(sortBy), tie))

\* a plausible slip: pages counted from 0
getVideosPaginatedFromZero(rows, sortBy, page, pageSize, tie) ==
    LET offset     == page * pageSize
        totalCount == Len(rows)
        videos     == mapRows(limitOffset(orderBy(rows, orderByOf(sortBy), tie),
                                          pageSize, offset))
    IN  [videos     |-> videos,
         totalCount |-> totalCount,
         hasMore    |-> offset + Len(videos) < totalCount]

getVideosPaginated(rows, sortBy, page, pageSize, tie) ==
    LET offset     == (page - 1) * pageSize
        totalCount == Len(rows)
        videos     == mapRows(limitOffset(orderBy(rows, orderByOf(sortBy), tie),
                                          pageSize, offset))
    IN  [videos     |-> videos,
         totalCount |-> totalCount,
         hasMore    |-> offset + Len(videos) < totalCount]

getVideosByFolderPaginated(rows, folderName, sortBy, page, pageSize, tie) ==
    getVideosPaginated(SelectSeq(rows, LAMBDA r : r.folder_name = folderName),
                       sortBy, page, pageSize, tie)

\* x LIKE pattern: % matches any run of characters, _ any one character,
\* any other character itself (letters without regard to case)
RECURSIVE like(_, _)
like(text, pattern) ==
    IF pattern = <<>> THEN text = <<>>
    ELSE IF Head(pattern) = "%"
      THEN \/ like(text, Tail(pattern))
           \/ text # <<>> /\ like(Tail(text), pattern)
    ELSE IF text = <<>> THEN FALSE
    ELSE IF Head(pattern) = "_" THEN like(Tail(text), Tail(pattern))
    ELSE /\ toLowerCase(<<Head(text)>>) = toLowerCase(<<Head(pattern)>>)
         /\ like(Tail(text), Tail(pattern))

\* LOWER(column) LIKE ?; a NULL column (codec is <<>> then) gives NULL
lowerLike(column, searchTerm) ==
    /\ column # <<>>
    /\ like(toLowerCase(column[1]), searchTerm)

searchVideos(rows, query, tie) ==
    LET searchTerm == <<"%">> \o toLowerCase(query) \o <<"%">>
        found == SelectSeq(rows, LAMBDA r :
                    \/ lowerLike(<<r.file_name>>, searchTerm)
                    \/ lowerLike(<<r.folder_name>>, searchTerm)
                    \/ lowerLike(r.codec, searchTerm))
    IN  mapRows(orderBy(found, [column |-> "creation_date", desc |-> TRUE], tie))

(***************************************************************************)
(* The queries on their own: a store holding some records, in some rowid   *)
(* order, is listed, paged through and searched; nothing writes to it.     *)
(* A client asks one query, and after a full listing it may page through   *)
(* the store with the same sort key, page 1, 2, ... in turn, until a page  *)
(* is empty; session keeps the listing and the pages, concatenated.        *)
(***************************************************************************)
NameU == <<"x", "_", "y", ".", "m", "p", "4">>

QueryVideos ==
    { VideoIndexEntry(join(SubdirPath(1), NameA), NameA,
                      [mtime |-> 2, ctime |-> 1, size |-> 5], 1, 1),
      VideoIndexEntry(join(SubdirPath(1), NameB), NameB,
                      [mtime |-> 1, ctime |-> 1, size |-> 5], 2, 1),
      VideoIndexEntry(join(SubdirPath(2), NameN), NameN,
                      [mtime |-> 2, ctime |-> 2, size |-> 0], 1, 1),
      VideoIndexEntry(join(SubdirPath(2), NameU), NameU,
                      [mtime |-> 1, ctime |-> 2, size |-> 0], 2, 1) }

QueryStores ==
    UNION { { rows \in [1..n -> QueryVideos] :
                \A i, j \in 1..n : rows[i] = rows[j] => i = j } : n \in 0..MaxRows }

SearchQueries ==
    { <<>>, <<"a">>, <<"M", "K">>, <<"D", "1">>, <<"h", "2">>, <<"z">>,
      <<"_">>, <<"%">>, <<"x", "_", "y">>, <<"a", "_", "m">> }

InitQuery ==
    /\ tree = NoTree
    /\ mtime = [p \in {} |-> 1]
    /\ variant = "threaded"
    /\ maxConcurrent = 1
    /\ pending = <<>>
    /\ store \in QueryStores
    /\ rootLost = FALSE
    /\ broken = {}
    /\ phase = "idle"
    /\ pass = 0
    /\ lanes = NoLanes
    /\ totalIndexedCount = 0
    /\ result = NoResult
    /\ nWrites = 0
    /\ nEvents = 0
    /\ nComplete = 0
    /\ lastEvent = NoEvent
    /\ handled = {}
    /\ touched = FALSE
    /\ passQuiet = FALSE
    /\ log = <<>>
    /\ call = NoCall
    /\ answer = <<>>
    /\ session = NoSession
    /\ clock = 0
    /\ cacheFile = NoCacheFile
    /\ ExtraIdle
    /\ items = <<>>
    /\ threadCount = 0
    /\ groups = <<>>

GetVideosSorted(sortBy) ==
    /\ call = NoCall
    /\ answer' \in { getVideosSorted(store, sortBy, tie) : tie \in Ties(store) }
    /\ session' = [sortBy |-> sortBy, pageSize |-> 0, page |-> 0,
                   listing |-> answer', videos |-> <<>>,
                   open |-> TRUE, done |-> FALSE]
    /\ call' = [op |-> "getVideosSorted", sortBy |-> sortBy, page |-> 0,
                pageSize |-> 0, arg |-> <<>>]
    /\ UNCHANGED <<store, fsVars, crawlVars, ghostVars, pending, log, cacheVars,
                   groupVars>>

GetVideosPaginated(sortBy, page, pageSize) ==
    /\ \/ call = NoCall
       \/ /\ session.open /\ ~session.done
          /\ session.sortBy = sortBy
          /\ session.pageSize \in {0, pageSize}
          /\ page = session.page + 1
    /\ answer' \in { getVideosPaginated(store, sortBy, page, pageSize, tie) :
                       tie \in Ties(store) }
    /\ call' = [op |-> "getVideosPaginated", sortBy |-> sortBy, page |-> page,
                pageSize |-> pageSize, arg |-> <<>>]
    /\ session' =
          IF /\ session.open /\ ~session.done
             /\ session.sortBy = sortBy
             /\ session.pageSize \in {0, pageSize}
             /\ page = session.page + 1
            THEN [session EXCEPT !.pageSize = pageSize,
                                 !.page = page,
                                 !.videos = @ \o answer'.videos,
                                 !.done = (answer'.videos = <<>>)]
            ELSE NoSession
    /\ UNCHANGED <<store, fsVars, crawlVars, ghostVars, pending, log, cacheVars,
                   groupVars>>

GetVideosByFolderPaginated(folderName, sortBy, page, pageSize) ==
    /\ call = NoCall
    /\ answer' \in { getVideosByFolderPaginated(store, folderName, sortBy, page,
                                                 pageSize, tie) : tie \in Ties(store) }
    /\ call' = [op |-> "getVideosByFolderPaginated", sortBy |-> sortBy,
                page |-> page, pageSize |-> pageSize, arg |-> folderName]
    /\ session' = NoSession
    /\ UNCHANGED <<store, fsVars, crawlVars, ghostVars, pending, log, cacheVars,
                   groupVars>>

SearchVideos(query) ==
    /\ call = NoCall
    /\ answer' \in { searchVideos(store, query, tie) : tie \in Ties(store) }
    /\ call' = [op |-> "searchVideos", sortBy |-> "", page |-> 0, pageSize |-> 0,
                arg |-> query]
    /\ session' = NoSession
    /\ UNCHANGED <<store, fsVars, crawlVars, ghostVars, pending, log, cacheVars,
                   groupVars>>

NextQuery ==
    \/ \E sortBy \in SortKeys : GetVideosSorted(sortBy)
    \/ \E sortBy \in SortKeys, page \in 1..MaxPage, pageSize \in 1..MaxPageSize :
          GetVideosPaginated(sortBy, page, pageSize)
    \/ \E folderName \in {DirName(1), DirName(2)}, sortBy \in SortKeys,
          page \in 1..MaxPage, pageSize \in 1..MaxPageSize :
          GetVideosByFolderPaginated(folderName, sortBy, page, pageSize)
    \/ \E query \in SearchQueries : SearchVideos(query)

QuerySpec == InitQuery /\ [][NextQuery]_vars

(***************************************************************************)
(* Storage analysis and its cache.  The clock counts hours.  The cache     *)
(* document storage_stats.json is absent, holds bytes that JSON.parse      *)
(* rejects ("garbage"), holds the JSON null, or holds an object that maps  *)
(* directory paths to their statistics.                                    *)
(*                                                                         *)
(* A file here also carries how `ffprobe -show_format` goes for it: whether*)
(* Command.execute resolves (spawn), the exit code, what stdout holds (no  *)
(* JSON, the JSON null, a format without size, size 0, a positive size),   *)
(* the size reported (containerSize), and whether readFile can read it.    *)
(***************************************************************************)
maxAge == 24

FormatRuns ==
    [spawn : BOOLEAN, code : {0, 1},
     stdout : {"garbage", "null", "nosize", "zero", "size"}]

FormatSize == [spawn |-> TRUE, code |-> 0, stdout |-> "size"]

AnalysisFile(file, run, containerSize, readable) ==
    [name |-> file.name, stream |-> file.stream, size |-> file.size,
     ctime |-> file.ctime, probe |-> file.probe,
     format |-> run, containerSize |-> containerSize, readable |-> readable]

FileSkipped ==
    [name |-> <<"T", "h", "u", "m", "b", "s", ".", "d", "b">>, stream |-> 0,
     size |-> 2, ctime |-> 1, probe |-> ProbeExit1]

AnalysisFiles ==
    { AnalysisFile(FileA, FormatSize, 6, TRUE),
      AnalysisFile(FileB, [FormatSize EXCEPT !.stdout = "nosize"], 0, TRUE),
      AnalysisFile(FileB, [FormatSize EXCEPT !.stdout = "zero"], 0, TRUE),
      AnalysisFile(FileN, [FormatSize EXCEPT !.stdout = "garbage"], 0, TRUE),
      AnalysisFile(FileN, [FormatSize EXCEPT !.stdout = "null"], 0, FALSE),
      AnalysisFile(FileT, [FormatSize EXCEPT !.code = 1, !.stdout = "garbage"], 0, TRUE),
      AnalysisFile(FileT, [FormatSize EXCEPT !.spawn = FALSE], 0, TRUE),
      AnalysisFile(FileT, [FormatSize EXCEPT !.spawn = FALSE], 0, FALSE),
      AnalysisFile(FileSkipped, [FormatSize EXCEPT !.spawn = FALSE], 0, TRUE) }

AnalysisContents ==
    { <<>> } \cup { <<f>> : f \in AnalysisFiles }
             \cup { <<AnalysisFile(FileA, FormatSize, 6, TRUE), g>> :
                    g \in AnalysisFiles }

\* the directories analysed: a root with at most one subdirectory
AnalysisTrees ==
    UNION { { [nsub |-> n, nested |-> FALSE, files |-> f, unreadable |-> u] :
                f \in { g \in [TreeDirs(n, FALSE) -> AnalysisContents] :
                          n = 1 => g[SubdirPath(1)] = <<AnalysisFile(FileA, FormatSize, 6, TRUE)>> },
                u \in {{}} \cup { {d} : d \in TreeDirs(n, FALSE) } } :
            n \in 0..1 }

getFileSize(file) ==
    LET fallback == IF file.readable THEN file.size ELSE 0
    IN  IF ~file.format.spawn THEN fallback
        ELSE IF file.format.code # 0 THEN 0
        ELSE IF file.format.stdout \in {"garbage", "null"} THEN fallback
        ELSE IF file.format.stdout = "size" /\ file.containerSize > 0
             THEN file.containerSize
        ELSE 0

analyzeFile(file, stats) ==
    IF file.name \in filesToSkip THEN stats
    ELSE LET fileSize == getFileSize(file)
             counted  == [stats EXCEPT !.totalFiles = @ + 1,
                                       !.totalSize = @ + fileSize]
         IN  IF isVideoFile(file.name)
             THEN [counted EXCEPT !.videoFiles = @ + 1, !.videoSize = @ + fileSize]
             ELSE counted

RECURSIVE analyzeFiles(_, _)
analyzeFiles(files, stats) ==
    IF files = <<>> THEN stats
    ELSE analyzeFiles(Tail(files), analyzeFile(Head(files), stats))

RECURSIVE analyzeDirectoryRecursive(_, _)
RECURSIVE analyzeSubdirs(_, _, _)
analyzeSubdirs(directoryPath, names, stats) ==
    IF names = <<>> THEN stats
    ELSE analyzeSubdirs(directoryPath, Tail(names),
             analyzeDirectoryRecursive(join(directoryPath, Head(names)), stats))

\* a directory that cannot be listed leaves the statistics as they are
analyzeDirectoryRecursive(directoryPath, stats) ==
    IF directoryPath \notin DOMAIN tree.files \/ readDirFails(directoryPath)
    THEN stats
    ELSE analyzeSubdirs(directoryPath, readDirSubdirs(directoryPath),
                        analyzeFiles(readDirFiles(directoryPath), stats))

NewStats(directoryPath, t) ==
    [totalFiles |-> 0, totalSize |-> 0, videoFiles |-> 0, videoSize |-> 0,
     lastUpdated |-> t, directoryPath |-> directoryPath]

GarbageCacheFile == [kind |-> "garbage", entries |-> <<>>]

NullCacheFile == [kind |-> "null", entries |-> <<>>]

ObjectCacheFile(entries) == [kind |-> "object", entries |-> entries]

\* cacheStorageStats when a failure to read or parse the document is not
\* caught next to the read: it reaches the outer catch and nothing is written
cacheStorageStatsNoRecover(doc, directoryPath, stats) ==
    IF doc.kind \in {"null", "garbage"} THEN doc
    ELSE ObjectCacheFile([d \in DOMAIN doc.entries \cup {directoryPath} |->
                             IF d = directoryPath THEN stats ELSE doc.entries[d]])

\* the document cacheStorageStats leaves; writeFile succeeds
cacheStorageStats(doc, directoryPath, stats) ==
    IF doc.kind = "null" THEN doc
    ELSE LET cachedStats == IF doc.kind = "object" THEN doc.entries ELSE <<>>
         IN  ObjectCacheFile([d \in DOMAIN cachedStats \cup {directoryPath} |->
                                 IF d = directoryPath THEN stats ELSE cachedStats[d]])

analyzeStorage(directoryPath, t) ==
    analyzeDirectoryRecursive(directoryPath, NewStats(directoryPath, t))

\* getCachedStorageStats that returns whatever entry the document holds
getCachedStorageStatsAnyAge(doc, directoryPath, t) ==
    IF doc.kind # "object" THEN <<>>
    ELSE IF directoryPath \notin DOMAIN doc.entries THEN <<>>
    ELSE <<doc.entries[directoryPath]>>

\* null is <<>>, an entry e is <<e>>
getCachedStorageStats(doc, directoryPath, t) ==
    IF doc.kind # "object" THEN <<>>
    ELSE IF directoryPath \notin DOMAIN doc.entries THEN <<>>
    ELSE LET stats    == doc.entries[directoryPath]
             cacheAge == t - stats.lastUpdated
         IN  IF cacheAge < maxAge THEN <<stats>> ELSE <<>>

CacheDirs == {RootPath, SubdirPath(1)}

\* the instants the clock is read at: around every multiple of maxAge
ClockTimes == { t \in 0..MaxClock : t % maxAge \in {0, 1, maxAge - 1} }

CacheFiles ==
    {NoCacheFile, GarbageCacheFile, NullCacheFile, ObjectCacheFile(<<>>)}
    \cup { ObjectCacheFile([d \in {dir} |-> [NewStats(dir, 0) EXCEPT !.totalFiles = 9]]) :
           dir \in CacheDirs }

InitCache ==
    /\ tree \in AnalysisTrees
    /\ mtime = [p \in FilePaths(tree) |-> 1]
    /\ variant = "threaded"
    /\ maxConcurrent = 1
    /\ pending = <<>>
    /\ store = <<>>
    /\ rootLost = FALSE
    /\ broken = {}
    /\ phase = "idle"
    /\ pass = 0
    /\ lanes = NoLanes
    /\ totalIndexedCount = 0
    /\ result = NoResult
    /\ nWrites = 0
    /\ nEvents = 0
    /\ nComplete = 0
    /\ lastEvent = NoEvent
    /\ handled = {}
    /\ touched = FALSE
    /\ passQuiet = FALSE
    /\ log = <<>>
    /\ call = NoCall
    /\ answer = <<>>
    /\ session = NoSession
    /\ clock = 0
    /\ cacheFile \in CacheFiles
    /\ ExtraIdle
    /\ items = <<>>
    /\ threadCount = 0
    /\ groups = <<>>

CacheCall(op, directoryPath) ==
    [op |-> op, arg |-> directoryPath, at |-> clock, was |-> cacheFile]

AnalyzeStorage(directoryPath) ==
    /\ answer' = <<analyzeStorage(directoryPath, clock)>>
    /\ cacheFile' = cacheStorageStats(cacheFile, directoryPath, answer'[1])
    /\ call' = CacheCall("analyzeStorage", directoryPath)
    /\ UNCHANGED <<store, fsVars, crawlVars, ghostVars, pending, log, session,
                   clock, extraVars, groupVars>>

GetCachedStorageStats(directoryPath) ==
    /\ answer' = getCachedStorageStats(cacheFile, directoryPath, clock)
    /\ call' = CacheCall("getCachedStorageStats", directoryPath)
    /\ UNCHANGED <<store, fsVars, crawlVars, ghostVars, pending, log, session,
                   cacheVars, groupVars>>

\* time passes
Tick ==
    /\ clock' \in { t \in ClockTimes : t > clock }
    /\ UNCHANGED <<store, fsVars, crawlVars, ghostVars, pending, log, call,
                   answer, session, cacheFile, extraVars, groupVars>>

\* the document is cut short or overwritten from outside the program
DamageCache ==
    /\ cacheFile.kind = "object"
    /\ cacheFile' = GarbageCacheFile
    /\ UNCHANGED <<store, fsVars, crawlVars, ghostVars, pending, log, call,
                   answer, session, clock, extraVars, groupVars>>

NextCache ==
    \/ \E directoryPath \in CacheDirs : AnalyzeStorage(directoryPath)
    \/ \E directoryPath \in CacheDirs : GetCachedStorageStats(directoryPath)
    \/ Tick
    \/ DamageCache

CacheSpec == InitCache /\ [][NextCache]_vars

(***************************************************************************)
(* analyzeStorage step by step.  readDir gives the entries of a directory  *)
(* in one order, files and subdirectories mixed; a stretch of n files in   *)
(* a row is one item here and a subdirectory is another.  Every file of    *)
(* the stretch has the same size, and getFileSize returns it.              *)
(* The counter filesProcessed is a local of analyzeDirectoryRecursive: one *)
(* per frame of the recursion.                                             *)
(***************************************************************************)
ProgressEvery == 100

BulkFiles(n, video) == [kind |-> "files", n |-> n, video |-> video, size |-> 2]

BulkDir(name) == [kind |-> "dir", n |-> 0, video |-> FALSE, size |-> 0, name |-> name]

RunLengths == {0, 1, MaxRun \div 2, MaxRun}

\* the stretches that hold a file
NonEmpty(entries) == SelectSeq(entries, LAMBDA e : e.kind = "dir" \/ e.n > 0)

Bulks ==
    { [entries |-> (RootPath :> NonEmpty(<<BulkFiles(a, FALSE), BulkDir(DirName(1)),
                                           BulkFiles(b, TRUE)>>))
                   @@ (SubdirPath(1) :> NonEmpty(<<BulkFiles(c, TRUE)>>)),
       unlistable |-> u] :
        a \in RunLengths, b \in RunLengths, c \in RunLengths,
        u \in {{}, {RootPath}, {SubdirPath(1)}} }

WalkFrameOf(directoryPath) ==
    [dir |-> directoryPath, rest |-> bulk.entries[directoryPath],
     filesProcessed |-> 0, half |-> FALSE]

InitWalk ==
    /\ tree = NoTree
    /\ mtime = [p \in {} |-> 1]
    /\ variant = "threaded"
    /\ maxConcurrent = 1
    /\ pending = <<>>
    /\ store = <<>>
    /\ rootLost = FALSE
    /\ broken = {}
    /\ phase = "idle"
    /\ pass = 0
    /\ lanes = NoLanes
    /\ totalIndexedCount = 0
    /\ result = NoResult
    /\ nWrites = 0
    /\ nEvents = 0
    /\ nComplete = 0
    /\ lastEvent = NoEvent
    /\ handled = {}
    /\ touched = FALSE
    /\ passQuiet = FALSE
    /\ log = <<>>
    /\ call = NoCall
    /\ answer = <<>>
    /\ session = NoSession
    /\ clock \in {1, maxAge + 1}
    /\ cacheFile \in {NoCacheFile, GarbageCacheFile,
                      ObjectCacheFile([d \in {RootPath} |->
                          [NewStats(RootPath, 0) EXCEPT !.totalFiles = 9]])}
    /\ bulk \in Bulks
    /\ walk = NoWalk
    /\ verdict = NoVerdict
    /\ SlotsIdle
    /\ LateIdle
    /\ items = <<>>
    /\ threadCount = 0
    /\ groups = <<>>

WalkFrame == <<store, fsVars, crawlVars, ghostVars, pending, log, call, answer,
               session, clock, groupVars>>

\* analyzeStorage that lets a failure to list the root through
StartAnalysisRaising ==
    /\ walk.pc = "idle"
    /\ walk' = [walk EXCEPT
                  !.pc = IF RootPath \in bulk.unlistable THEN "raised" ELSE "walking",
                  !.stats = NewStats(RootPath, clock),
                  !.stack = IF RootPath \in bulk.unlistable THEN <<>>
                            ELSE <<WalkFrameOf(RootPath)>>]
    /\ UNCHANGED <<WalkFrame, cacheFile, bulk, verdict, slotVars, lateVars>>

\* analyzeStorage up to the call of analyzeDirectoryRecursive, and the
\* readDir of the root in it
StartAnalysis ==
    /\ walk.pc = "idle"
    /\ walk' = [walk EXCEPT
                  !.pc = "walking",
                  !.stats = NewStats(RootPath, clock),
                  !.stack = IF RootPath \in bulk.unlistable THEN <<>>
                            ELSE <<WalkFrameOf(RootPath)>>]
    /\ UNCHANGED <<WalkFrame, cacheFile, bulk, verdict, slotVars, lateVars>>

WalkTop == walk.stack[Len(walk.stack)]

\* the stretch at the head of the entries with one file fewer
OneFewer(rest) ==
    IF Head(rest).n = 1 THEN Tail(rest)
    ELSE <<[Head(rest) EXCEPT !.n = @ - 1]>> \o Tail(rest)

\* filesProcessed++ and the emitStorageProgress after it
Processed(w) ==
    LET top   == w.stack[Len(w.stack)]
        n     == top.filesProcessed + 1
        after == [w EXCEPT !.stack[Len(w.stack)].filesProcessed = n,
                           !.stack[Len(w.stack)].half = FALSE,
                           !.stack[Len(w.stack)].rest = OneFewer(top.rest)]
    IN  IF n % ProgressEvery = 0
        THEN [after EXCEPT
                !.events = @ + 1,
                !.last = [currentPath |-> top.dir, filesProcessed |-> n,
                          totalSize |-> w.stats.totalSize, isComplete |-> FALSE,
                          totalFiles |-> w.stats.totalFiles]]
        ELSE after

\* stats.totalFiles++; stats.totalSize += fileSize
CountFile ==
    /\ walk.pc = "walking"
    /\ walk.stack # <<>>
    /\ WalkTop.rest # <<>>
    /\ Head(WalkTop.rest).kind = "files"
    /\ ~WalkTop.half
    /\ LET counted == [walk EXCEPT !.stats.totalFiles = @ + 1,
                                   !.stats.totalSize = @ + Head(WalkTop.rest).size]
       IN  walk' = IF Head(WalkTop.rest).video
                   THEN [counted EXCEPT !.stack[Len(walk.stack)].half = TRUE]
                   ELSE Processed(counted)
    /\ UNCHANGED <<WalkFrame, cacheFile, bulk, verdict, slotVars, lateVars>>

\* stats.videoFiles++; stats.videoSize += fileSize
CountVideo ==
    /\ walk.pc = "walking"
    /\ walk.stack # <<>>
    /\ WalkTop.half
    /\ walk' = Processed([walk EXCEPT !.stats.videoFiles = @ + 1,
                                      !.stats.videoSize = @ + Head(WalkTop.rest).size])
    /\ UNCHANGED <<WalkFrame, cacheFile, bulk, verdict, slotVars, lateVars>>

\* the recursive call for a subdirectory; a readDir that rejects is caught
\* in the call and the loop of the caller goes on
WalkDescend ==
    /\ walk.pc = "walking"
    /\ walk.stack # <<>>
    /\ WalkTop.rest # <<>>
    /\ Head(WalkTop.rest).kind = "dir"
    /\ LET sub    == join(WalkTop.dir, Head(WalkTop.rest).name)
           popped == [walk EXCEPT !.stack[Len(walk.stack)].rest = Tail(@)]
       IN  walk' = IF sub \in bulk.unlistable THEN popped
                   ELSE [popped EXCEPT !.stack = Append(@, WalkFrameOf(sub))]
    /\ UNCHANGED <<WalkFrame, cacheFile, bulk, verdict, slotVars, lateVars>>

\* the loop over the entries ends
WalkAscend ==
    /\ walk.pc = "walking"
    /\ walk.stack # <<>>
    /\ WalkTop.rest = <<>>
    /\ walk' = [walk EXCEPT !.stack = SubSeq(@, 1, Len(@) - 1)]
    /\ UNCHANGED <<WalkFrame, cacheFile, bulk, verdict, slotVars, lateVars>>

\* await this.cacheStorageStats(directoryPath, stats)
CacheStats ==
    /\ walk.pc = "walking"
    /\ walk.stack = <<>>
    /\ cacheFile' = cacheStorageStats(cacheFile, RootPath, walk.stats)
    /\ walk' = [walk EXCEPT !.pc = "cached"]
    /\ UNCHANGED <<WalkFrame, bulk, verdict, slotVars, lateVars>>

\* emitStorageProgress(directoryPath, totalFiles, totalSize, true); return
WalkComplete ==
    /\ walk.pc = "cached"
    /\ walk' = [walk EXCEPT
                  !.pc = "returned",
                  !.events = @ + 1,
                  !.last = [currentPath |-> RootPath,
                            filesProcessed |-> walk.stats.totalFiles,
                            totalSize |-> walk.stats.totalSize, isComplete |-> TRUE,
                            totalFiles |-> walk.stats.totalFiles]]
    /\ UNCHANGED <<WalkFrame, cacheFile, bulk, verdict, slotVars, lateVars>>

NextWalk ==
    \/ StartAnalysis
    \/ CountFile
    \/ CountVideo
    \/ WalkDescend
    \/ WalkAscend
    \/ CacheStats
    \/ WalkComplete

WalkSpec == InitWalk /\ [][NextWalk]_vars

(***************************************************************************)
(* The classifier on its own.  extname of @tauri-apps/api/path takes the   *)
(* extension as Rust's Path::extension does and rejects when the path has  *)
(* none: a name without a dot, or whose only dot leads it.  isVideoFile    *)
(* awaits it outside any try, so the rejection is the outcome of           *)
(* isVideoFile.                                                            *)
(***************************************************************************)
extnameRejects(name) == LastDot(name) <= 1

\* what a call of isVideoFile comes to: "true", "false" or "rejects"
isVideoFileOutcome(filename) ==
    IF filename \in filesToSkip THEN "false"
    ELSE IF extnameRejects(filename) THEN "rejects"
    ELSE IF isVideoFile(filename) THEN "true" ELSE "false"

NameStems ==
    { <<"c", "l", "i", "p">>,
      <<"m", "o", "v", "i", "e">>,
      <<"n", "o", "e", "x", "t">> }

NameSuffixes ==
    { <<>>,
      <<".">>,
      <<".", "t", "x", "t">>,
      <<".", "M", "P", "4">>,
      <<".", "M", "p", "4">>,
      <<".", "m", "p", "4">>,
      <<".", "a", "v", "i">>,
      <<".", "M", "O", "V">>,
      <<".", "m", "k", "v">>,
      <<".", "w", "e", "b", "m">>,
      <<".", "f", "l", "v">>,
      <<".", "w", "m", "v">>,
      <<".", "m", "4", "v">>,
      <<".", "m", "p", "g">>,
      <<".", "m", "p", "e", "g">>,
      <<".", "3", "g", "p">>,
      <<".", "o", "g", "v">>,
      <<".", "m", "p", "4", ".", "t", "x", "t">>,
      <<".", "t", "x", "t", ".", "m", "p", "4">>,
      <<".", "m", "p", "3">>,
      <<".", "m", "p">>,
      <<".", "m", "p", "4", "4">> }

ClassifiedNames ==
    { stem \o suffix : stem \in NameStems, suffix \in NameSuffixes }
    \cup filesToSkip
    \cup { <<"t", "h", "u", "m", "b", "s", ".", "d", "b">>,
      <<"T", "h", "u", "m", "b", "s", ".", "d", "b", ".", "m", "p", "4">>,
      <<".", "m", "p", "4">>,
      <<".", "h", "i", "d", "d", "e", "n">>,
      <<"F", "o", "l", "d", "e", "r", ".", "J", "P", "G">>,
      <<"a", ".", "b">> }

InitClassifier ==
    /\ tree = NoTree
    /\ mtime = [p \in {} |-> 1]
    /\ variant = "threaded"
    /\ maxConcurrent = 1
    /\ pending = <<>>
    /\ IdleCore
    /\ bulk = NoBulk
    /\ walk = NoWalk
    /\ verdict \in { [name |-> n, outcome |-> "none"] : n \in ClassifiedNames }
    /\ SlotsIdle
    /\ LateIdle

IsVideoFile ==
    /\ verdict.outcome = "none"
    /\ verdict' = [verdict EXCEPT !.outcome = isVideoFileOutcome(verdict.name)]
    /\ UNCHANGED <<store, fsVars, crawlVars, ghostVars, pending, log, call, answer,
                   session, clock, cacheFile, walkVars, slotVars, lateVars, groupVars>>

NextClassifier == IsVideoFile

ClassifierSpec == InitClassifier /\ [][NextClassifier]_vars

(***************************************************************************)
(* The two callback fields of VideoIndexer.  A crawl or an analysis is     *)
(* seen here only through its calls of emitProgress and                    *)
(* emitStorageProgress; observed keeps, for each field, the observers      *)
(* registered so far in order and how many events each observer received.  *)
(***************************************************************************)
setProgressCallback(cbs, callback) == [cbs EXCEPT !.progress = callback]

\* a registration that keeps an observer already there
setStorageProgressCallbackOnce(cbs, callback) ==
    IF cbs.storage = "none" THEN [cbs EXCEPT !.storage = callback] ELSE cbs

setStorageProgressCallback(cbs, callback) == [cbs EXCEPT !.storage = callback]

\* the observers emitProgress calls: the one in the field, if any
emitProgress(cbs) == IF cbs.progress # "none" THEN {cbs.progress} ELSE {}

emitStorageProgress(cbs) == IF cbs.storage # "none" THEN {cbs.storage} ELSE {}

InitCallbacks ==
    /\ tree = NoTree
    /\ mtime = [p \in {} |-> 1]
    /\ variant = "threaded"
    /\ maxConcurrent = 1
    /\ pending = <<>>
    /\ IdleCore
    /\ bulk = NoBulk
    /\ walk = NoWalk
    /\ verdict = NoVerdict
    /\ SlotsIdle
    /\ LateIdle

SlotFrame == <<store, fsVars, crawlVars, ghostVars, pending, log, call, answer,
               session, clock, cacheFile, walkVars, verdict, lateVars, groupVars>>

SetProgressCallback(callback) ==
    /\ Len(observed.registered["progress"]) < MaxRegistrations
    /\ callbacks' = setProgressCallback(callbacks, callback)
    /\ observed' = [observed EXCEPT !.registered["progress"] = Append(@, callback)]
    /\ UNCHANGED SlotFrame

SetStorageProgressCallback(callback) ==
    /\ Len(observed.registered["storage"]) < MaxRegistrations
    /\ callbacks' = setStorageProgressCallback(callbacks, callback)
    /\ observed' = [observed EXCEPT !.registered["storage"] = Append(@, callback)]
    /\ UNCHANGED SlotFrame

\* a crawl or an analysis starts or ends
StartOrEnd ==
    /\ observed' = [observed EXCEPT !.running = ~@]
    /\ UNCHANGED <<SlotFrame, callbacks>>

Deliver(slot, to) ==
    [observed EXCEPT
        !.emitted[slot] = @ + 1,
        !.received[slot] = [o \in Observers |-> IF o \in to THEN @[o] + 1 ELSE @[o]]]

EmitProgress ==
    /\ observed.running
    /\ observed.emitted["progress"] < MaxEmits
    /\ observed' = Deliver("progress", emitProgress(callbacks))
    /\ UNCHANGED <<SlotFrame, callbacks>>

EmitStorageProgress ==
    /\ observed.running
    /\ observed.emitted["storage"] < MaxEmits
    /\ observed' = Deliver("storage", emitStorageProgress(callbacks))
    /\ UNCHANGED <<SlotFrame, callbacks>>

NextCallbacks ==
    \/ \E callback \in Observers : SetProgressCallback(callback)
    \/ \E callback \in Observers : SetStorageProgressCallback(callback)
    \/ StartOrEnd
    \/ EmitProgress
    \/ EmitStorageProgress

CallbackSpec == InitCallbacks /\ [][NextCallbacks]_vars

(***************************************************************************)
(* Analysis passes that overlap.  analyzeStorage is async: between its     *)
(* awaits other passes run.  A pass computes its statistics, then          *)
(* cacheStorageStats reads the document into its local cachedStats, and    *)
(* after further awaits writes cachedStats with its own entry set.         *)
(***************************************************************************)
IdlePass == [pc |-> "idle", dir |-> <<>>, stats |-> <<>>, cachedStats |-> <<>>]

OverlapTree ==
    [nsub |-> 1, nested |-> FALSE,
     files |-> (RootPath :> <<AnalysisFile(FileA, FormatSize, 6, TRUE),
                              AnalysisFile(FileN, [FormatSize EXCEPT !.spawn = FALSE], 0, TRUE)>>)
               @@ (SubdirPath(1) :> <<AnalysisFile(FileA, FormatSize, 6, TRUE)>>),
     unreadable |-> {}]

InitOverlap ==
    /\ tree = OverlapTree
    /\ mtime = [p \in FilePaths(tree) |-> 1]
    /\ variant = "threaded"
    /\ maxConcurrent = 1
    /\ pending = <<>>
    /\ IdleCore
    /\ bulk = NoBulk
    /\ walk = NoWalk
    /\ verdict = NoVerdict
    /\ SlotsIdle
    /\ passes = [p \in 1..MaxOverlap |-> IdlePass]
    /\ conn = NoConn
    /\ reader = NoReader

OverlapFrame == <<store, fsVars, crawlVars, ghostVars, pending, log, call, answer,
                  session, clock, walkVars, verdict, slotVars, conn, reader,
                  groupVars>>

\* analyzeStorage up to the call of cacheStorageStats
PassStart(p, directoryPath) ==
    /\ passes[p].pc = "idle"
    /\ passes' = [passes EXCEPT ![p] = [pc |-> "walked", dir |-> directoryPath,
                                        stats |-> analyzeStorage(directoryPath, clock),
                                        cachedStats |-> <<>>]]
    /\ UNCHANGED <<OverlapFrame, cacheFile>>

\* cacheStorageStats: exists, readFile, JSON.parse
PassRead(p) ==
    /\ passes[p].pc = "walked"
    /\ passes' = IF cacheFile.kind = "null"
                 THEN [passes EXCEPT ![p].pc = "done"]
                 ELSE [passes EXCEPT
                         ![p].pc = "read",
                         ![p].cachedStats = IF cacheFile.kind = "object"
                                            THEN cacheFile.entries ELSE <<>>]
    /\ UNCHANGED <<OverlapFrame, cacheFile>>

\* cacheStorageStats: the document exists and readFile rejects
PassReadFails(p) ==
    /\ passes[p].pc = "walked"
    /\ cacheFile.kind # "absent"
    /\ passes' = [passes EXCEPT ![p].pc = "read", ![p].cachedStats = <<>>]
    /\ UNCHANGED <<OverlapFrame, cacheFile>>

\* cacheStorageStats: cachedStats[directoryPath] = stats; writeFile
PassWrite(p) ==
    /\ passes[p].pc = "read"
    /\ cacheFile' = ObjectCacheFile(
            [d \in DOMAIN passes[p].cachedStats \cup {passes[p].dir} |->
                IF d = passes[p].dir THEN passes[p].stats
                ELSE passes[p].cachedStats[d]])
    /\ passes' = [passes EXCEPT ![p].pc = "done"]
    /\ UNCHANGED OverlapFrame

NextOverlap ==
    \/ \E p \in 1..MaxOverlap, directoryPath \in CacheDirs : PassStart(p, directoryPath)
    \/ \E p \in 1..MaxOverlap : PassRead(p)
    \/ \E p \in 1..MaxOverlap : PassReadFails(p)
    \/ \E p \in 1..MaxOverlap : PassWrite(p)
    \/ Tick

OverlapSpec == InitOverlap /\ [][NextOverlap]_vars

(***************************************************************************)
(* VideoStore.initialize step by step.  Callers are the viewer's           *)
(* initializeDatabase, which nobody awaits, the crawl, and every store     *)
(* operation.  A handle is the number of the Database.load that returned   *)
(* it; db = 0 is null.  loads and tables count the calls of Database.load  *)
(* and createTables, used holds the handles store operations ran on, and   *)
(* overlapped tells whether a call ever began while another was under way. *)
(***************************************************************************)
InitConn ==
    [db |-> 0, loads |-> 0, tables |-> 0, used |-> {}, overlapped |-> FALSE,
     callers |-> [c \in 1..MaxCallers |-> "idle"], calls |-> 0]

InitConnect ==
    /\ tree = NoTree
    /\ mtime = [p \in {} |-> 1]
    /\ variant = "threaded"
    /\ maxConcurrent = 1
    /\ pending = <<>>
    /\ IdleCore
    /\ bulk = NoBulk
    /\ walk = NoWalk
    /\ verdict = NoVerdict
    /\ SlotsIdle
    /\ passes = NoPasses
    /\ conn = InitConn
    /\ reader = NoReader

ConnFrame == <<store, fsVars, crawlVars, ghostVars, pending, log, call, answer,
               session, clock, cacheFile, walkVars, verdict, slotVars, passes,
               reader, groupVars>>

UnderWay(c) == conn.callers[c] \in {"opening", "creating"}

\* initialize(): the test `if (!this.db)`, then the awaits before the load
InitializeEnter(c) ==
    /\ conn.callers[c] = "idle"
    /\ conn.calls < MaxCalls
    /\ conn' = [conn EXCEPT
                  !.calls = @ + 1,
                  !.callers[c] = IF conn.db = 0 THEN "opening" ELSE "ready",
                  !.overlapped = @ \/ (conn.db = 0 /\ \E o \in 1..MaxCallers : UnderWay(o))]
    /\ UNCHANGED ConnFrame

\* this.db = await Database.load(...)
InitializeLoad(c) ==
    /\ conn.callers[c] = "opening"
    /\ conn' = [conn EXCEPT !.loads = @ + 1, !.db = conn.loads + 1,
                            !.callers[c] = "creating"]
    /\ UNCHANGED ConnFrame

\* await this.createTables()
InitializeCreateTables(c) ==
    /\ conn.callers[c] = "creating"
    /\ conn' = [conn EXCEPT !.tables = @ + 1, !.callers[c] = "ready"]
    /\ UNCHANGED ConnFrame

\* what follows `await this.initialize()` in a store operation: a statement
\* on this.db; initializeDatabase and the crawl just return
AfterInitialize(c) ==
    /\ conn.callers[c] = "ready"
    /\ conn' = [conn EXCEPT !.used = @ \cup {conn.db}, !.callers[c] = "idle"]
    /\ UNCHANGED ConnFrame

NextConnect ==
    \/ \E c \in 1..MaxCallers : InitializeEnter(c)
    \/ \E c \in 1..MaxCallers : InitializeLoad(c)
    \/ \E c \in 1..MaxCallers : InitializeCreateTables(c)
    \/ \E c \in 1..MaxCallers : AfterInitialize(c)

ConnectSpec == InitConnect /\ [][NextConnect]_vars

(***************************************************************************)
(* getVideosPaginated while a crawl writes.  The call sends two statements *)
(* with an await between them, the SELECT of the row count and then the    *)
(* SELECT of the page; each sees the table as it is when it runs.          *)
(* reader.seen keeps the states of the table from the first statement to   *)
(* the second.                                                             *)
(***************************************************************************)
IdleReader ==
    [pc |-> "idle", sortBy |-> "", page |-> 0, pageSize |-> 0, totalCount |-> 0,
     videos |-> <<>>, hasMore |-> FALSE, seen |-> <<>>]

ReadSortKeys == {"creation_date_desc", "name_asc"}

InitRead ==
    /\ tree = NoTree
    /\ mtime = [p \in {} |-> 1]
    /\ variant = "threaded"
    /\ maxConcurrent = 1
    /\ pending = <<>>
    /\ store \in QueryStores
    /\ rootLost = FALSE
    /\ broken = {}
    /\ phase = "idle"
    /\ pass = 0
    /\ lanes = NoLanes
    /\ totalIndexedCount = 0
    /\ result = NoResult
    /\ nWrites = 0
    /\ nEvents = 0
    /\ nComplete = 0
    /\ lastEvent = NoEvent
    /\ handled = {}
    /\ touched = FALSE
    /\ passQuiet = FALSE
    /\ log = <<>>
    /\ call = NoCall
    /\ answer = <<>>
    /\ session = NoSession
    /\ clock = 0
    /\ cacheFile = NoCacheFile
    /\ bulk = NoBulk
    /\ walk = NoWalk
    /\ verdict = NoVerdict
    /\ SlotsIdle
    /\ passes = NoPasses
    /\ conn = NoConn
    /\ reader = IdleReader
    /\ items = <<>>
    /\ threadCount = 0
    /\ groups = <<>>

ReadFrame == <<fsVars, crawlVars, ghostVars, pending, log, call, answer, session,
               clock, cacheFile, walkVars, verdict, slotVars, passes, conn,
               groupVars>>

\* the SELECT of the row count
ReaderCount(sortBy, page, pageSize) ==
    /\ reader.pc = "idle"
    /\ reader' = [reader EXCEPT !.pc = "counted", !.sortBy = sortBy, !.page = page,
                                !.pageSize = pageSize, !.totalCount = Len(store),
                                !.seen = <<store>>]
    /\ UNCHANGED <<ReadFrame, store>>

\* addVideo of the crawl between the two statements
WriterAddVideo(video) ==
    /\ reader.pc = "counted"
    /\ Len(reader.seen) <= MaxUpserts
    /\ store' = addVideo(store, video)
    /\ reader' = [reader EXCEPT !.seen = Append(@, store')]
    /\ UNCHANGED ReadFrame

\* SELECT * FROM videos ORDER BY ... LIMIT ? OFFSET ?, and the return
ReaderSelect ==
    /\ reader.pc = "counted"
    /\ \E tie \in Ties(store) :
          LET offset == (reader.page - 1) * reader.pageSize
              videos == mapRows(limitOffset(orderBy(store, orderByOf(reader.sortBy), tie),
                                            reader.pageSize, offset))
          IN  reader' = [reader EXCEPT
                            !.pc = "returned",
                            !.videos = videos,
                            !.hasMore = offset + Len(videos) < reader.totalCount]
    /\ UNCHANGED <<ReadFrame, store>>

NextRead ==
    \/ \E sortBy \in ReadSortKeys, page \in 1..2, pageSize \in 1..MaxPageSize :
          ReaderCount(sortBy, page, pageSize)
    \/ \E video \in QueryVideos : WriterAddVideo(video)
    \/ ReaderSelect

ReadSpec == InitRead /\ [][NextRead]_vars

(***************************************************************************)
(* createThreadGroups on its own: subdirectories are discovered in some    *)
(* order and then distributed over some number of threads.                 *)
(***************************************************************************)
InitGroups ==
    /\ tree = NoTree
    /\ mtime = [p \in {} |-> 1]
    /\ variant = "threaded"
    /\ maxConcurrent = 1
    /\ pending = <<>>
    /\ IdleRest

Discover ==
    /\ threadCount = 0
    /\ Len(items) < MaxItems
    /\ \E k \in 1..MaxItems :
        /\ DirName(k) \notin Range(items)
        /\ items' = Append(items, DirName(k))
    /\ UNCHANGED <<store, fsVars, crawlVars, ghostVars, clientVars, threadCount, groups>>

Distribute ==
    /\ threadCount = 0
    /\ \E n \in 1..MaxThreads :
        /\ threadCount' = n
        /\ groups' = createThreadGroups(items, n)
    /\ UNCHANGED <<store, fsVars, crawlVars, ghostVars, clientVars, items>>

NextGroups == Discover \/ Distribute

GroupsSpec == InitGroups /\ [][NextGroups]_vars

(***************************************************************************)
(* indexDirectoryWithThreading under the scheduling of the event loop: a   *)
(* continuation that is ready runs, and every file-system, probe and       *)
(* store call completes.                                                   *)
(***************************************************************************)
InitThreaded == Init /\ variant = "threaded"

NextThreaded ==
    \/ StartCrawl
    \/ \E l \in LaneIds : FileCheck(l)
    \/ \E l \in LaneIds : FileWrite(l)
    \/ RootDone
    \/ \E l \in LaneIds : EnterFolder(l)
    \/ \E l \in LaneIds : Descend(l)
    \/ \E l \in LaneIds : Return(l)
    \/ Join
    \/ Touch
    \/ Corrupt
    \/ LoseRoot

ThreadedSpec == InitThreaded /\ [][NextThreaded]_vars /\ WF_vars(ThreadedStep)

(***************************************************************************)
(* Properties.                                                             *)
(***************************************************************************)
UnderReadableDirs(path) ==
    \A k \in 1..(Len(path) - 1) : SubSeq(path, 1, k) \notin tree.unreadable

CrawlReturned == phase = "idle" /\ result.status = "ok"

\* C1: after indexDirectoryWithThreading on a tree whose directories are all readable has
\* returned, getVideoByPath finds a record for every file the classifier
\* accepts and the probe finds a video stream in, whatever names the files
\* share.
C1_EveryVideoIndexed ==
    (variant = "threaded" /\ CrawlReturned /\ tree.unreadable = {}) =>
        \A p \in IndexableFiles : getVideoByPath(store, p) # <<>>

\* C2: a crawl that directly follows a crawl of the same tree, with no
\* modification time changed in between, performs no addVideo and returns 0.
C2_SecondPassWritesNothing ==
    passQuiet => (nWrites = 0 /\ (CrawlReturned => result.count = 0))

\* C3: no two rows of the store have the same full_path, and right after
\* an addVideo for a path the store holds exactly one row for that path,
\* the one just written, also when the path was written before with other
\* metadata.
C3_UpsertByPath ==
    /\ \A i, j \in 1..Len(store) :
          store[i].full_path = store[j].full_path => i = j
    /\ (log # <<>> /\ Last(log).op = "addVideo") =>
          LET video == Last(log).video[1]
          IN  /\ getVideoByPath(store, video.full_path) = <<video>>
              /\ Cardinality({ i \in 1..Len(store) :
                                 store[i].full_path = video.full_path }) = 1

C3_Witness ==
    /\ Len(log) >= 2
    /\ log[Len(log)].op = "addVideo"
    /\ log[Len(log) - 1].op = "addVideo"
    /\ log[Len(log)].video[1].full_path = log[Len(log) - 1].video[1].full_path
    /\ log[Len(log)].video[1].meta # log[Len(log) - 1].video[1].meta
    /\ getVideoByPath(store, log[Len(log)].video[1].full_path) = log[Len(log)].video

\* C4: a step that writes the record of one path leaves the record of every
\* other path in the store, unchanged.
C4_WriteKeepsOtherRecords ==
    [][ \A i \in 1..Len(store) :
          (store' # store /\ store[i].full_path # Last(store').full_path)
             => \E j \in 1..Len(store') : store'[j] = store[i] ]_vars

\* C5: when two clients have each upserted one record, for different
\* paths both records are in the store as written, and for the same path the
\* store holds one record for it, the one written last.
C5_UpsertsInterleaveSafely ==
    (/\ Len(log) = 2
     /\ log[1].op = "addVideo" /\ log[2].op = "addVideo"
     /\ log[1].client # log[2].client) =>
        LET first  == log[1].video[1]
            second == log[2].video[1]
        IN  IF first.full_path # second.full_path
              THEN /\ getVideoByPath(store, first.full_path) = <<first>>
                   /\ getVideoByPath(store, second.full_path) = <<second>>
              ELSE store = <<second>>

\* C6: createThreadGroups puts the i-th item (counted from 0) into group
\* i mod N at position i div N, and nothing else into any group; 5 items
\* over 2 threads give the groups (0, 2, 4) and (1, 3).
C6_RoundRobin ==
    threadCount > 0 =>
        /\ Len(groups) = threadCount
        /\ \A i \in 0..(Len(items) - 1) :
              LET g == groups[(i % threadCount) + 1]
                  k == (i \div threadCount) + 1
              IN  k <= Len(g) /\ g[k] = items[i + 1]
        /\ SumSeq([g \in 1..threadCount |-> Len(groups[g])]) = Len(items)
        /\ (Len(items) = 5 /\ threadCount = 2) =>
              groups = << <<items[1], items[3], items[5]>>, <<items[2], items[4]>> >>

C6_Witness ==
    /\ threadCount = 2
    /\ Len(items) = 5
    /\ groups = << <<items[1], items[3], items[5]>>, <<items[2], items[4]>> >>

\* C7: whatever the numbers S of subdirectories and L of lanes, every lane
\* gets floor(S/L) or ceil(S/L) of them and every subdirectory sits in
\* exactly one lane at one position (of the function as such, evaluated
\* before the first crawl, and of every distribution a crawl makes); and in
\* a crawl no file is handled by two lanes.
FairGroups(its, n, gs) ==
    /\ \A g \in 1..n :
          Len(gs[g]) \in { Len(its) \div n, (Len(its) + n - 1) \div n }
    /\ \A i \in 1..Len(its) :
          Cardinality({ gk \in UNION { {g} \X (1..Len(gs[g])) : g \in 1..n } :
                          gs[gk[1]][gk[2]] = its[i] }) = 1

C7_LaneFairness ==
    /\ pass = 0 =>
          \A S \in 0..MaxItems, L \in 1..MaxThreads :
              FairGroups([i \in 1..S |-> DirName(i)], L,
                         createThreadGroups([i \in 1..S |-> DirName(i)], L))
    /\ threadCount > 0 => FairGroups(items, threadCount, groups)
    /\ \A h1, h2 \in handled : h1.path = h2.path => h1.lane = h2.lane

C7_Witness ==
    /\ CrawlReturned
    /\ threadCount = 2
    /\ Len(items) = 2
    /\ \E h1, h2 \in handled : h1.lane = 1 /\ h2.lane = 2

C9_RunningTotal ==
    lastEvent.kind = "file" => lastEvent.indexedCount = lastEvent.writes

\* The handling of a subdirectory that cannot be listed: none of its files
\* is handled, every file outside it is handled (written, or skipped as
\* unchanged, when it is an indexable video), the count is the number of
\* files written, and the crawl returns instead of raising.
SubtreeFailureHandled ==
    /\ ~readDirFails(RootPath) => result.status # "raised"
    /\ \A h \in handled : UnderReadableDirs(h.path)
    /\ CrawlReturned =>
          /\ \A p \in FilePaths(tree) :
                UnderReadableDirs(p) => \E h \in handled : h.path = p
          /\ \A p \in IndexableFiles :
                UnderReadableDirs(p) =>
                    \E h \in handled : /\ h.path = p
                                       /\ h.outcome \in {"written", "skipped"}
          /\ result.count = Cardinality({ h \in handled : h.outcome = "written" })

\* C10: when a subdirectory cannot be listed, its subtree adds nothing to
\* the count and writes no record, the crawl returns instead of raising, and
\* every indexable file outside the subtree (siblings, other lanes, root) is
\* indexed: getVideoByPath finds its record once the crawl has returned.
C10_SubtreeFailureIsLocal ==
    /\ SubtreeFailureHandled
    /\ (CrawlReturned /\ tree.unreadable # {}) =>
          \A p \in IndexableFiles :
              UnderReadableDirs(p) => getVideoByPath(store, p) # <<>>

\* C11: a crawl of either variant whose listing of the root fails ends at
\* once with the error raised to its caller, leaves the store as it was and
\* emits no progress event (none with isComplete in particular); and a
\* crawl raises for no other reason.
C11_RootFailureIsFatal ==
    /\ [](result.status = "raised" =>
            /\ phase = "idle"
            /\ readDirFails(RootPath)
            /\ nWrites = 0
            /\ nEvents = 0
            /\ nComplete = 0)
    /\ [][ (pass' = pass + 1 /\ readDirFails(RootPath)) =>
              /\ result'.status = "raised"
              /\ store' = store ]_vars

C11_Witness ==
    /\ result.status = "raised"
    /\ pass = 2
    /\ rootLost
    /\ Len(store) >= 2

\* C12: however the probe of a file fails (ffprobe cannot be run or exits
\* non-zero, its output does not parse or has no video stream),
\* extractVideoMetadata gives null instead of raising; the step that
\* handles such a file writes nothing, leaves the store as it is (the
\* file's earlier record included), counts nothing and emits nothing, and
\* the crawl goes on: when it has returned (and before anything on disk
\* changes again), every other file of the
\* listable directories was handled and the count is the number of files
\* written.
C12_ProbeFailureSkipsFile ==
    /\ [](\A run \in ProbeRuns : \A stream \in 0..2 :
            /\ extractFrom(run, stream) \in {0, stream}
            /\ (run # ProbeVideo) => extractFrom(run, stream) = 0)
    /\ [][ \A h \in handled' \ handled :
             h.outcome = "nostream" =>
                /\ store' = store
                /\ nWrites' = nWrites
                /\ nEvents' = nEvents
                /\ lanes'[h.lane].threadTotalCount = lanes[h.lane].threadTotalCount
                /\ Last(lanes'[h.lane].stack).fileCount = Top(h.lane).fileCount
                /\ Last(lanes'[h.lane].stack).indexedCount = Top(h.lane).indexedCount
                /\ Last(lanes'[h.lane].stack).files = Tail(Top(h.lane).files) ]_vars
    /\ []((CrawlReturned /\ ~touched) =>
            /\ \A p \in FilePaths(tree) :
                  UnderReadableDirs(p) => \E h \in handled : h.path = p
            /\ \A h \in handled :
                  h.outcome = "nostream" <=>
                     /\ isVideoFile(basename(h.path))
                     /\ h.path \notin IndexableFiles
            /\ result.count = Cardinality({ h \in handled : h.outcome = "written" }))

C12_Witness ==
    /\ CrawlReturned
    /\ pass = 2
    /\ \E h \in handled :
          /\ h.outcome = "nostream"
          /\ h.path \in broken
          /\ getVideoByPath(store, h.path) # <<>>
    /\ \E h1, h2 \in handled :
          /\ h1.outcome = "nostream"
          /\ h2.outcome = "written"
          /\ dirname(h1.path) = dirname(h2.path)

\* C13: the two variants treat a file alike: once a crawl of either variant
\* has returned (and before anything on disk changes again), every record
\* of a file the crawl wrote is, indexed_at aside, field for field the
\* record that processFilesInDirectory of the lane-based variant builds for
\* that file, file_size included.
C13_VariantsAgree ==
    (CrawlReturned /\ ~touched) =>
        \A i \in 1..Len(store) :
            (\E h \in handled : h.path = store[i].full_path /\ h.outcome = "written") =>
                \E d \in DOMAIN tree.files : \E k \in 1..Len(tree.files[d]) :
                    /\ join(d, tree.files[d][k].name) = store[i].full_path
                    /\ store[i] = [indexEntry(d, tree.files[d][k])
                                     EXCEPT !.indexed_at = store[i].indexed_at]

\* C14: when nothing is written in between, the pages 1, 2, ... of
\* getVideosPaginated for one sort key and one page size, up to the first
\* empty page, concatenated, are the sequence getVideosSorted gave for that
\* sort key: every record once, in the same order.
C14_PagesMakeTheListing ==
    session.done => session.videos = session.listing

\* the same for the sort keys on which no two records of the store agree
PagesMakeTheListingWithoutTies ==
    (/\ session.done
     /\ \A i, j \in 1..Len(store) :
           i # j => \/ Before(store[i], store[j], orderByOf(session.sortBy))
                    \/ Before(store[j], store[i], orderByOf(session.sortBy)))
        => session.videos = session.listing

\* the scenario store: 45 records, all of different creation dates
Rows45 ==
    [i \in 1..45 |->
        LET fileName == <<"v", ToString(i \div 10), ToString(i % 10), ".", "m", "p", "4">>
        IN  VideoIndexEntry(join(SubdirPath(1), fileName), fileName,
                            [mtime |-> i, ctime |-> i, size |-> i], 1, 1)]

\* C15: a page of getVideosPaginated (and of getVideosByFolderPaginated,
\* within the folder) is the rows (page - 1) * pageSize + 1 up to
\* page * pageSize of the sorted rows, pages counted from 1; totalCount is
\* the number of records; hasMore is offset + returned < totalCount, which
\* is the case exactly when the next page, and so some later page, is not
\* empty; with 45 records and pageSize 20, page 1 has 20 records and
\* hasMore, page 3 has 5 records and no more.
C15_PageArithmetic ==
    /\ call.op \in {"getVideosPaginated", "getVideosByFolderPaginated"} =>
          LET rows   == IF call.op = "getVideosPaginated" THEN store
                        ELSE SelectSeq(store, LAMBDA r : r.folder_name = call.arg)
              offset == (call.page - 1) * call.pageSize
              rest   == Len(rows) - offset
          IN  /\ answer.totalCount = Len(rows)
              /\ Len(answer.videos) =
                    IF rest <= 0 THEN 0
                    ELSE IF rest < call.pageSize THEN rest ELSE call.pageSize
              /\ \E tie \in Ties(rows) :
                    answer.videos =
                       limitOffset(orderBy(rows, orderByOf(call.sortBy), tie),
                                   call.pageSize, offset)
              /\ answer.hasMore = (offset + Len(answer.videos) < answer.totalCount)
              /\ \A tie \in Ties(rows) :
                    answer.hasMore =
                       (\E later \in (call.page + 1)..(call.page + Len(rows) + 1) :
                           getVideosPaginated(rows, call.sortBy, later,
                                              call.pageSize, tie).videos # <<>>)
    /\ call = NoCall =>
          LET tie   == [i \in 1..45 |-> i]
              page1 == getVideosPaginated(Rows45, "creation_date_desc", 1, 20, tie)
              page3 == getVideosPaginated(Rows45, "creation_date_desc", 3, 20, tie)
          IN  /\ Len(page1.videos) = 20 /\ page1.hasMore /\ page1.totalCount = 45
              /\ page1.videos[1] = Rows45[45] /\ page1.videos[20] = Rows45[26]
              /\ Len(page3.videos) = 5 /\ ~page3.hasMore /\ page3.totalCount = 45
              /\ page3.videos[1] = Rows45[5] /\ page3.videos[5] = Rows45[1]

C15_Witness ==
    /\ call.op = "getVideosPaginated"
    /\ call.page = 2
    /\ call.pageSize = 2
    /\ Len(store) = 3
    /\ Len(answer.videos) = 1
    /\ ~answer.hasMore
    /\ session.open
    /\ Len(session.videos) = 3

\* a listing holds every record of the store once, in the order of the sort key
ListingIsSorted(listing, sortBy) ==
    /\ Len(listing) = Len(store)
    /\ \A i \in 1..Len(store) : \E k \in 1..Len(listing) : listing[k] = store[i]
    /\ \A k, m \in 1..Len(listing) :
          k < m => ~Before(listing[m], listing[k], orderByOf(sortBy))

SortedListingIsSorted ==
    call.op = "getVideosSorted" => ListingIsSorted(answer, call.sortBy)

\* C16: getVideosSorted returns every record of the store once, ordered by
\* the column and direction of the sort key, and records equal on that
\* column in the order of their insertion (their order in the store).
C16_SortedAndStable ==
    call.op = "getVideosSorted" =>
        /\ ListingIsSorted(answer, call.sortBy)
        /\ \A i, j \in 1..Len(store) :
              (/\ i < j
               /\ ~Before(store[i], store[j], orderByOf(call.sortBy))
               /\ ~Before(store[j], store[i], orderByOf(call.sortBy))) =>
                  \E k, m \in 1..Len(answer) :
                     k < m /\ answer[k] = store[i] /\ answer[m] = store[j]

\* q occurs in text as it stands, letters compared without regard to case
Contains(text, q) ==
    \E i \in 1..(Len(text) + 1) :
        /\ i + Len(q) - 1 <= Len(text)
        /\ toLowerCase(SubSeq(text, i, i + Len(q) - 1)) = toLowerCase(q)

\* C17: searchVideos(q) returns exactly the records in whose file_name,
\* folder_name or codec (when there is one) q occurs as a literal
\* substring, letters compared without regard to case, whatever characters
\* q contains, '%' and '_' included.
C17_SearchIsLiteralSubstring ==
    call.op = "searchVideos" =>
        { answer[k] : k \in 1..Len(answer) } =
            { store[i] : i \in { j \in 1..Len(store) :
                \/ Contains(store[j].file_name, call.arg)
                \/ Contains(store[j].folder_name, call.arg)
                \/ store[j].codec # <<>> /\ Contains(store[j].codec[1], call.arg) } }

\* the same for the queries without '%' and '_'
SearchIsSubstringWithoutWildcards ==
    (\A k \in 1..Len(call.arg) : call.arg[k] \notin {"%", "_"}) =>
        C17_SearchIsLiteralSubstring

\* C18: getCachedStorageStats(D) returns the entry cached for D when its
\* lastUpdated is less than 24 hours before the clock at the call and
\* nothing otherwise; no entry it returns is 24 hours old or older, and an
\* entry 25 hours old is not returned.
C18_CacheFreshness ==
    call.op = "getCachedStorageStats" =>
        LET cached == call.was.kind = "object" /\ call.arg \in DOMAIN call.was.entries
        IN  /\ answer # <<>> =>
                /\ cached
                /\ answer[1] = call.was.entries[call.arg]
                /\ call.at - answer[1].lastUpdated < 24
            /\ (cached /\ call.at - call.was.entries[call.arg].lastUpdated < 24) =>
                answer = <<call.was.entries[call.arg]>>
            /\ (cached /\ call.at - call.was.entries[call.arg].lastUpdated >= 25) =>
                answer = <<>>

\* an entry 25 hours old was asked for and not returned
C18_Witness ==
    /\ call.op = "getCachedStorageStats"
    /\ call.was.kind = "object"
    /\ call.arg \in DOMAIN call.was.entries
    /\ call.at - call.was.entries[call.arg].lastUpdated = 25
    /\ answer = <<>>

\* the step analyzeStorage takes on a document that cannot be parsed
AnalyzedOverGarbage ==
    /\ cacheFile.kind = "garbage"
    /\ call'.op = "analyzeStorage"
    /\ call' # call \/ cacheFile' # cacheFile

\* C19: while the cache document cannot be parsed, getCachedStorageStats
\* returns nothing for every directory; analyzeStorage run on it computes
\* the statistics anew and leaves a well-formed document that holds them
\* as the entry of the directory, which getCachedStorageStats then returns.
C19_MalformedCacheIsReplaced ==
    /\ [](call.op = "getCachedStorageStats" /\ call.was.kind = "garbage" =>
              answer = <<>>)
    /\ [][AnalyzedOverGarbage =>
            /\ answer' = <<analyzeStorage(call'.arg, clock)>>
            /\ cacheFile'.kind = "object"
            /\ call'.arg \in DOMAIN cacheFile'.entries
            /\ cacheFile'.entries[call'.arg] = answer'[1]
            /\ getCachedStorageStats(cacheFile', call'.arg, clock') = answer']_vars

\* analyzeStorage ran on an unparsable document and left an object
C19_Witness ==
    /\ call.op = "analyzeStorage"
    /\ call.was.kind = "garbage"
    /\ cacheFile.kind = "object"
    /\ call.arg \in DOMAIN cacheFile.entries
    /\ cacheFile.entries[call.arg] = answer[1]
    /\ answer[1].totalFiles > 0

\* the directories analyzeDirectoryRecursive lists below directoryPath
ListedDirs(directoryPath) ==
    { d \in DOMAIN tree.files :
        /\ Len(d) >= Len(directoryPath)
        /\ SubSeq(d, 1, Len(directoryPath)) = directoryPath
        /\ \A n \in Len(directoryPath)..Len(d) : ~readDirFails(SubSeq(d, 1, n)) }

\* the files it counts, each as <<directory, position>>
CountedFiles(directoryPath) ==
    { e \in UNION { { <<d, i>> : i \in 1..Len(tree.files[d]) } :
                    d \in ListedDirs(directoryPath) } :
        tree.files[e[1]][e[2]].name \notin filesToSkip }

ProbeGivesSize(file) ==
    /\ file.format.spawn
    /\ file.format.code = 0
    /\ file.format.stdout = "size"
    /\ file.containerSize > 0

\* the size the file should count for: what the probe reports, else the
\* byte length when the file can be read, else nothing
SizeOfFile(file) ==
    IF ProbeGivesSize(file) THEN file.containerSize
    ELSE IF file.readable THEN file.size
    ELSE 0

RECURSIVE SumOfSizes(_)
SumOfSizes(entries) ==
    IF entries = {} THEN 0
    ELSE LET e == CHOOSE x \in entries : TRUE
         IN  SizeOfFile(tree.files[e[1]][e[2]]) + SumOfSizes(entries \ {e})

\* C20: every file analyzeStorage counts adds to totalSize the size the
\* probe reports when it reports a positive one, and its byte length when
\* the probe does not and the file can be read; it adds nothing only when
\* neither gives a size.
C20_SizeIsProbeOrByteLength ==
    call.op = "analyzeStorage" =>
        answer[1].totalSize = SumOfSizes(CountedFiles(call.arg))

\* the same where no counted file has a probe that ends with a non-zero
\* exit code or reports a format without a positive size
SizeIsByteLengthWhenProbeThrows ==
    (call.op = "analyzeStorage" /\
     \A e \in CountedFiles(call.arg) :
        LET file == tree.files[e[1]][e[2]]
        IN  \/ ProbeGivesSize(file)
            \/ ~file.format.spawn
            \/ file.format.code = 0 /\ file.format.stdout \in {"garbage", "null"}) =>
        C20_SizeIsProbeOrByteLength

\* the files of the pass that are through the loop body
FilesProcessedInPass ==
    IF walk.pc = "idle" THEN 0
    ELSE walk.stats.totalFiles -
         (IF walk.stack # <<>> /\ WalkTop.half THEN 1 ELSE 0)

\* C21: during analyzeStorage a storage-progress event is emitted each time
\* the number of files processed in the pass reaches a multiple of 100, and
\* the event carries that number, the files of all directories visited so
\* far, together with the total size of exactly these files.
C21_ProgressEveryHundred ==
    walk.pc \in {"walking", "cached"} =>
        /\ walk.events = FilesProcessedInPass \div 100
        /\ walk.events > 0 =>
              /\ walk.last.filesProcessed = walk.last.totalFiles
              /\ walk.last.totalSize = 2 * walk.last.filesProcessed

\* the same for a pass all of whose files lie in one directory
ProgressEveryHundredInOneDirectory ==
    Cardinality({ d \in DOMAIN bulk.entries \ bulk.unlistable :
                    \E i \in 1..Len(bulk.entries[d]) :
                        bulk.entries[d][i].kind = "files" }) <= 1 =>
        C21_ProgressEveryHundred

\* what the classifier is to answer for the name it was given; a name whose
\* only dot leads it is left open
ClassifierVerdict ==
    verdict.outcome # "none" =>
        LET name == verdict.name
            ext  == toLowerCase(SubSeq(name, LastDot(name) + 1, Len(name)))
        IN  IF name \in filesToSkip THEN verdict.outcome = "false"
            ELSE IF LastDot(name) = 0 THEN verdict.outcome = "false"
            ELSE IF LastDot(name) = 1 THEN TRUE
            ELSE verdict.outcome =
                    (IF (<<".">> \o ext) \in videoExtensions THEN "true" ELSE "false")

\* C22: isVideoFile(name) is false for a name that is an entry of the skip
\* set as it stands, false for a name without extension, and otherwise true
\* exactly when the extension in lower case is one of videoExtensions; the
\* call changes nothing else.
C22_Classifier ==
    /\ []ClassifierVerdict
    /\ [][verdict' # verdict =>
            UNCHANGED <<store, fsVars, crawlVars, ghostVars, pending, log, call,
                        answer, session, clock, cacheFile, walkVars, groupVars>>]_vars

\* the same for the names in the skip set or with a dot inside
ClassifierOnNamesWithExtension ==
    (verdict.name \in filesToSkip \/ LastDot(verdict.name) > 1) => ClassifierVerdict

\* the observer registered last for the field, if any
LastRegistered(slot) ==
    IF observed.registered[slot] = <<>> THEN {}
    ELSE {observed.registered[slot][Len(observed.registered[slot])]}

\* C23: each callback field holds one observer.  Every event emitted for a
\* field goes to the observer registered last for that field and to nobody
\* else, also when that registration came while a crawl was running; an
\* event emitted while nothing is registered goes to nobody; a
\* registration for one field leaves the other field as it was.
C23_OneObserverPerSlot ==
    /\ [][\A slot \in {"progress", "storage"} :
            observed'.emitted[slot] # observed.emitted[slot] =>
                \A o \in Observers :
                    observed'.received[slot][o] =
                        observed.received[slot][o] +
                        (IF o \in LastRegistered(slot) THEN 1 ELSE 0)]_vars
    /\ [][/\ observed'.registered["progress"] # observed.registered["progress"] =>
                callbacks'.storage = callbacks.storage
          /\ observed'.registered["storage"] # observed.registered["storage"] =>
                callbacks'.progress = callbacks.progress]_vars

\* a was registered, received an event, was replaced by b while the crawl
\* was running, and b received an event
C23_Witness ==
    /\ observed.registered["progress"] = <<"a", "b">>
    /\ observed.received["progress"]["a"] > 0
    /\ observed.received["progress"]["b"] > 0
    /\ observed.registered["storage"] = <<"b", "a">>
    /\ observed.received["storage"]["a"] > 0
    /\ observed.running

\* C24: the id of every record the crawler writes is the name of the
\* directory the file lies in, "_" and the file name, with every character
\* outside [A-Za-z0-9_-] replaced by "_"; so files of the same name in
\* directories whose sanitized names differ get different ids.
C24_IdIsFolderAndName ==
    /\ \A i \in 1..Len(store) :
          store[i].id = Sanitize(basename(dirname(store[i].full_path))
                                 \o <<"_">> \o store[i].file_name)
    /\ \A h1, h2 \in handled :
          (/\ h1.outcome = "written" /\ h2.outcome = "written"
           /\ basename(h1.path) = basename(h2.path)
           /\ Sanitize(basename(dirname(h1.path))) # Sanitize(basename(dirname(h2.path)))) =>
              generateId(basename(h1.path), dirname(h1.path)) #
                  generateId(basename(h2.path), dirname(h2.path))

\* d is a directory above the directory e
ProperlyAbove(d, e) == Len(d) < Len(e) /\ SubSeq(e, 1, Len(d)) = d

\* the place of the folder a file lies under in the folders assigned to
\* the lane that handled it
PlaceInLane(h) ==
    CHOOSE i \in 1..Len(groups[h.lane]) : groups[h.lane][i] = h.path[2]

\* C25: a lane handles the folders assigned to it one after another in the
\* order of the assignment, each with its whole subtree before the next,
\* and in every directory the files of the directory before any file of
\* its subdirectories.
C25_LaneOrder ==
    [][\A h \in handled' \ handled :
          /\ \A g \in handled : ~ProperlyAbove(dirname(h.path), dirname(g.path))
          /\ h.lane >= 1 =>
                \A g \in handled : g.lane = h.lane => PlaceInLane(g) <= PlaceInLane(h)]_vars

\* one lane has handled files of both its folders and of a directory
\* nested in the first, while another order of the folders was possible
C25_Witness ==
    /\ phase = "lanes"
    /\ Len(groups[1]) = 2
    /\ \E h1, h2, h3 \in handled :
          /\ h1.lane = 1 /\ h2.lane = 1 /\ h3.lane = 1
          /\ dirname(h1.path) = SubdirPath(1)
          /\ dirname(h2.path) = NestedPath
          /\ dirname(h3.path) = SubdirPath(2)

\* the paths of the files the root lists
RootFilePaths ==
    { join(RootPath, readDirFiles(RootPath)[i].name) :
        i \in 1..Len(readDirFiles(RootPath)) }

\* C26: indexDirectoryWithThreading lists the root once, and every file of
\* the root is handled, skipped or written, before a lane starts: no file
\* of a subdirectory is handled, written or reported, and no folder is
\* reported, while a file of the root is still to be handled.
C26_RootFilesFirst ==
    /\ [](\A l \in DOMAIN lanes : \A k \in 1..Len(lanes[l].stack) :
              lanes[l].stack[k].dir = RootPath => (l = 0 /\ k = 1 /\ phase = "root"))
    /\ [](phase = "lanes" => \A p \in RootFilePaths : \E h \in handled : h.path = p)
    /\ [][\A h \in handled' \ handled :
            dirname(h.path) # RootPath =>
                /\ phase = "lanes"
                /\ \A p \in RootFilePaths : \E g \in handled : g.path = p]_vars
    /\ [][(lastEvent' # lastEvent /\ lastEvent'.kind = "folder") =>
                \A p \in RootFilePaths : \E g \in handled : g.path = p]_vars

\* the root has files, all handled by the crawl itself, and a lane has
\* handled a file of a subdirectory
C26_Witness ==
    /\ phase = "lanes"
    /\ Cardinality(RootFilePaths) = 3
    /\ \A p \in RootFilePaths : \E h \in handled : h.path = p /\ h.lane = 0
    /\ \E h \in handled : h.lane >= 1 /\ h.outcome = "written"

\* pass p writes the document in this step
Writes(p) == passes[p].pc = "read" /\ passes'[p].pc = "done"

\* the entries the document holds
Entries(doc) == IF doc.kind = "object" THEN DOMAIN doc.entries ELSE {}

\* C27: the entry cached for a directory stays as it is until a pass for
\* that directory overwrites it: a pass for another directory leaves it in
\* the document unchanged, also when the passes overlap or the other pass
\* cannot read the document, and once overlapping passes for two
\* directories are done the document holds the entries of both.
C27_EntryPersists ==
    /\ [][\A p \in DOMAIN passes :
            Writes(p) =>
                \A d \in Entries(cacheFile) \ {passes[p].dir} :
                    /\ d \in Entries(cacheFile')
                    /\ cacheFile'.entries[d] = cacheFile.entries[d]]_vars
    /\ []((\A p \in DOMAIN passes : passes[p].pc = "done") =>
              \A p \in DOMAIN passes : passes[p].dir \in Entries(cacheFile))

\* the same for a pass that writes what it read from the document as it
\* still is
EntryPersistsWithoutOverlap ==
    [][\A p \in DOMAIN passes :
          (Writes(p) /\ cacheFile.kind = "object"
                     /\ passes[p].cachedStats = cacheFile.entries) =>
              \A d \in Entries(cacheFile) \ {passes[p].dir} :
                  /\ d \in Entries(cacheFile')
                  /\ cacheFile'.entries[d] = cacheFile.entries[d]]_vars

\* C28: the store connection is opened at most once, however many calls of
\* initialize overlap before the first has finished: Database.load and
\* createTables run once, and every store operation runs on the one handle.
C28_SingleConnection ==
    /\ conn.loads <= 1
    /\ conn.tables <= 1
    /\ Cardinality(conn.used) <= 1

\* the same as long as no call began while another was under way
SingleConnectionWithoutOverlap ==
    ~conn.overlapped => C28_SingleConnection

\* C29: a getVideosPaginated call that runs while records are written
\* answers from one state of the store: among the states the store went
\* through during the call there is one whose size is totalCount, whose
\* requested page is videos, and for which hasMore tells whether it holds
\* records beyond that page.
C29_ReadIsConsistent ==
    reader.pc = "returned" =>
        \E k \in 1..Len(reader.seen) : \E tie \in Ties(reader.seen[k]) :
            LET S == getVideosPaginated(reader.seen[k], reader.sortBy, reader.page,
                                        reader.pageSize, tie)
            IN  /\ S.totalCount = reader.totalCount
                /\ S.videos = reader.videos
                /\ S.hasMore = reader.hasMore

\* the same for a call during which nothing is written
ReadIsConsistentWithoutWrites ==
    Len(reader.seen) = 1 => C29_ReadIsConsistent

\* C30: analyzeStorage does not fail when a directory cannot be listed.
\* When the root cannot be listed it returns statistics whose four
\* counters are zero, has put them into the cache as the entry of the
\* root, in place of any entry that was there, and has emitted the
\* completion event; and at every point of every analysis videoFiles is at
\* most totalFiles and videoSize at most totalSize.
C30_AnalysisNeverFails ==
    /\ [](walk.pc \in {"idle", "walking", "cached", "returned"})
    /\ [](walk.pc # "idle" =>
            /\ walk.stats.videoFiles <= walk.stats.totalFiles
            /\ walk.stats.videoSize <= walk.stats.totalSize)
    /\ []((walk.pc = "returned" /\ RootPath \in bulk.unlistable) =>
            /\ walk.stats = NewStats(RootPath, clock)
            /\ cacheFile = ObjectCacheFile([d \in {RootPath} |-> walk.stats])
            /\ walk.last.isComplete
            /\ walk.last.filesProcessed = 0
            /\ walk.last.totalSize = 0)
    /\ [][(walk.pc = "walking" /\ walk'.pc = "cached") =>
            /\ cacheFile'.kind = "object"
            /\ cacheFile'.entries[RootPath] = walk.stats]_vars

\* the root could not be listed and the analysis has returned
C30_Witness ==
    /\ walk.pc = "returned"
    /\ RootPath \in bulk.unlistable
    /\ walk.events = 1
    /\ cacheFile.entries[RootPath].totalFiles = 0
    /\ cacheFile.entries[RootPath].lastUpdated = maxAge + 1

=============================================================================
